---- MODULE Spec2Model ----
(***************************************************************************)
(* A model of the jsn JSON codec: the Decorator and the value marshaling   *)
(* engine (decorator.go, writer.go) and the Scanner and the value reader   *)
(* (scanner.go, reader.go).  Text is modelled as sequences of byte values  *)
(* 0..255, Go values as tagged records.                                    *)
(***************************************************************************)
EXTENDS Integers, Sequences, FiniteSets, TLC

VARIABLES
    dec,    \* the decorator of the running session: out, err, sink, log
    aw,     \* the arrayWriter / objectWriter handed to the running procedure
    op,     \* the last operation and its arguments
    ret,    \* what Marshal returned
    data,   \* Scanner.data
    cur,    \* Scanner.cur
    flags,  \* Scanner.flags
    res,    \* what the last reader call returned: value, error
    mark    \* the cursor before the last reader call

vars == <<dec, aw, op, ret, data, cur, flags, res, mark>>

(***************************************************************************)
(* Bounds of the model.                                                    *)
(***************************************************************************)
MaxCalls == 2       \* Element / Member calls and marshalValue calls per session
MaxWrites == 1      \* Write calls a failing sink accepts before it fails
MaxKeys == 3        \* members of a marshaled map
MaxPtrDepth == 2    \* pointer indirections in front of a value

(***************************************************************************)
(* Bytes.                                                                  *)
(***************************************************************************)
Str_null == <<110, 117, 108, 108>>
Str_true == <<116, 114, 117, 101>>
Str_false == <<102, 97, 108, 115, 101>>
QUOTE == 34
BACKSLASH == 92
COMMA == 44
COLON == 58
LBRACKET == 91
RBRACKET == 93
LBRACE == 123
RBRACE == 125
MINUS == 45

NoError == [e |-> "nil"]

(***************************************************************************)
(* decorator (decorator.go).  A decorator is a record                      *)
(*   out    the bytes the sink has received                                *)
(*   err    the error slot, NoError when empty                             *)
(*   floatPrecision                                                        *)
(*   okWrites  the Write calls the sink still accepts (-1: never fails)    *)
(*   keep   the bytes a failing Write still delivers                       *)
(*   log    the capabilities and procedures invoked so far                 *)
(***************************************************************************)
newDecorator(precision, okWrites, keep) ==
    [out |-> << >>, err |-> NoError, floatPrecision |-> precision,
     okWrites |-> okWrites, keep |-> keep, log |-> << >>]

\* handleError that replaces the error the slot holds.
handleErrorOverwrite(d, e) == [d EXCEPT !.err = e]

handleError(d, e) ==
    IF d.err = NoError THEN [d EXCEPT !.err = e] ELSE d

hadError(d) == d.err # NoError

Min(a, b) == IF a < b THEN a ELSE b
Max(a, b) == IF a > b THEN a ELSE b

\* io.Writer.Write on the sink: the decorator with the bytes delivered, and
\* the error Write returned.
sinkWrite(d, s) ==
    IF d.okWrites = 0
    THEN [d |-> [d EXCEPT !.out = @ \o SubSeq(s, 1, Min(d.keep, Len(s)))],
          err |-> [e |-> "sink"]]
    ELSE [d |-> [d EXCEPT !.out = @ \o s,
                          !.okWrites = IF @ > 0 THEN @ - 1 ELSE @],
          err |-> NoError]

\* put without the latch: it writes whatever the error slot holds.
putUnlatched(d, s) ==
    LET w == sinkWrite(d, s)
    IN  IF w.err # NoError THEN handleError(w.d, w.err) ELSE w.d

put(d, s) ==
    IF d.err # NoError THEN d
    ELSE LET w == sinkWrite(d, s)
         IN  IF w.err # NoError THEN handleError(w.d, w.err) ELSE w.d

marshalNull(d) == put(d, Str_null)

\* marshalBool writing true for both values.
marshalBoolAlwaysTrue(d, v) == put(d, Str_true)

marshalBool(d, v) == IF v THEN put(d, Str_true) ELSE put(d, Str_false)

logCall(d, what) == [d EXCEPT !.log = Append(@, what)]

(***************************************************************************)
(* Number formatting (strconv.FormatInt, strconv.FormatFloat 'g').         *)
(* A finite float is [neg, m, e]: the value (-1)^neg * m * 10^e, with m    *)
(* not divisible by 10 (m = 0 has e = 0).  The floats of the model are     *)
(* whole numbers and short decimals, whose rounding to a number of         *)
(* significant digits is the same in binary and in decimal.                *)
(***************************************************************************)
RECURSIVE Pow10(_)
Pow10(n) == IF n <= 0 THEN 1 ELSE 10 * Pow10(n - 1)

RECURSIVE NumDigits(_)
NumDigits(n) == IF n < 10 THEN 1 ELSE 1 + NumDigits(n \div 10)

RECURSIVE DigitBytes(_)
DigitBytes(n) ==
    IF n < 10 THEN <<48 + n>> ELSE Append(DigitBytes(n \div 10), 48 + (n % 10))

RECURSIVE StripZeros(_)
StripZeros(n) == IF n # 0 /\ n % 10 = 0 THEN StripZeros(n \div 10) ELSE n

FormatInt(n) == IF n < 0 THEN <<MINUS>> \o DigitBytes(0 - n) ELSE DigitBytes(n)

\* The decimal digits of m * 10^e rounded half-to-even to `digits` significant
\* digits, trailing zeros dropped: [ds: the digits, dp: the decimal point].
roundDigits(m, e, digits) ==
    IF m = 0 THEN [ds |-> << >>, dp |-> 0]
    ELSE LET nd0 == NumDigits(m)
             cut == nd0 - digits
         IN  IF cut <= 0
             THEN [ds |-> DigitBytes(m), dp |-> nd0 + e]
             ELSE LET q == m \div Pow10(cut)
                      r == m % Pow10(cut)
                      half == 5 * Pow10(cut - 1)
                      up == r > half \/ (r = half /\ q % 2 = 1)
                      q1 == IF up THEN q + 1 ELSE q
                  IN  IF q1 = Pow10(digits)
                      THEN [ds |-> <<49>>, dp |-> nd0 + e + 1]
                      ELSE [ds |-> DigitBytes(StripZeros(q1)), dp |-> nd0 + e]

digitAt(digs, i) == IF i >= 1 /\ i <= Len(digs.ds) THEN digs.ds[i] ELSE 48

RECURSIVE digitRun(_, _, _)
digitRun(digs, from, n) ==
    IF n <= 0 THEN << >> ELSE <<digitAt(digs, from)>> \o digitRun(digs, from + 1, n - 1)

\* %e: d.ddddde+-dd
fmtE(neg, digs, prec) ==
    LET nd == Len(digs.ds)
        exp == IF nd = 0 THEN 0 ELSE digs.dp - 1
        ax == IF exp < 0 THEN 0 - exp ELSE exp
    IN  (IF neg THEN <<MINUS>> ELSE << >>)
        \o <<digitAt(digs, 1)>>
        \o (IF prec > 0 THEN <<46>> \o digitRun(digs, 2, prec) ELSE << >>)
        \o <<101, IF exp < 0 THEN MINUS ELSE 43>>
        \o (IF ax < 10 THEN <<48>> ELSE << >>) \o DigitBytes(ax)

\* %f: ddddd.ddddd
fmtF(neg, digs, prec) ==
    (IF neg THEN <<MINUS>> ELSE << >>)
    \o (IF digs.dp > 0 THEN digitRun(digs, 1, digs.dp) ELSE <<48>>)
    \o (IF prec > 0 THEN <<46>> \o digitRun(digs, digs.dp + 1, prec) ELSE << >>)

FormatFloat(v, prec0) ==
    IF v.cls = "nan" THEN <<78, 97, 78>>
    ELSE IF v.cls = "inf" THEN <<IF v.neg THEN MINUS ELSE 43, 73, 110, 102>>
    ELSE LET prec == IF prec0 = 0 THEN 1 ELSE prec0
             digs == roundDigits(v.m, v.e, prec)
             nd == Len(digs.ds)
             eprec == IF prec > nd /\ nd >= digs.dp THEN nd ELSE prec
             exp == digs.dp - 1
         IN  IF exp < -4 \/ exp >= eprec
             THEN fmtE(v.neg, digs, Min(prec, nd) - 1)
             ELSE fmtF(v.neg, digs,
                       Max((IF prec > digs.dp THEN nd ELSE prec) - digs.dp, 0))

(***************************************************************************)
(* Strings (decorator.go, scrambleStr and marshalString).                  *)
(***************************************************************************)
\* The escape scrambleStr writes for byte cp, << >> when cp is copied.
\* escapeOf without the case of the backslash.
escapeOfNoBackslash(cp) ==
    CASE cp = 8 -> <<BACKSLASH, 98>>
      [] cp = 12 -> <<BACKSLASH, 102>>
      [] cp = 10 -> <<BACKSLASH, 110>>
      [] cp = 13 -> <<BACKSLASH, 114>>
      [] cp = 9 -> <<BACKSLASH, 116>>
      [] cp = QUOTE -> <<BACKSLASH, QUOTE>>
      [] OTHER ->
            IF cp <= 15
            THEN <<BACKSLASH, 117, 48, 48, 48,
                   48 + cp + (IF cp >= 10 THEN 97 - 58 ELSE 0)>>
            ELSE IF cp <= 31
            THEN <<BACKSLASH, 117, 48, 48, 49,
                   48 + (cp - 16) + (IF cp >= 26 THEN 97 - 58 ELSE 0)>>
            ELSE << >>

\* escapeOf with the hex digits of \u00XX in upper case.
escapeOfUpperHex(cp) ==
    CASE cp = 8 -> <<BACKSLASH, 98>>
      [] cp = 12 -> <<BACKSLASH, 102>>
      [] cp = 10 -> <<BACKSLASH, 110>>
      [] cp = 13 -> <<BACKSLASH, 114>>
      [] cp = 9 -> <<BACKSLASH, 116>>
      [] cp = BACKSLASH -> <<BACKSLASH, BACKSLASH>>
      [] cp = QUOTE -> <<BACKSLASH, QUOTE>>
      [] OTHER ->
            IF cp <= 15
            THEN <<BACKSLASH, 117, 48, 48, 48,
                   48 + cp + (IF cp >= 10 THEN 65 - 58 ELSE 0)>>
            ELSE IF cp <= 31
            THEN <<BACKSLASH, 117, 48, 48, 49,
                   48 + (cp - 16) + (IF cp >= 26 THEN 65 - 58 ELSE 0)>>
            ELSE << >>

escapeOf(cp) ==
    CASE cp = 8 -> <<BACKSLASH, 98>>
      [] cp = 12 -> <<BACKSLASH, 102>>
      [] cp = 10 -> <<BACKSLASH, 110>>
      [] cp = 13 -> <<BACKSLASH, 114>>
      [] cp = 9 -> <<BACKSLASH, 116>>
      [] cp = BACKSLASH -> <<BACKSLASH, BACKSLASH>>
      [] cp = QUOTE -> <<BACKSLASH, QUOTE>>
      [] OTHER ->
            IF cp <= 15
            THEN <<BACKSLASH, 117, 48, 48, 48,
                   48 + cp + (IF cp >= 10 THEN 97 - 58 ELSE 0)>>
            ELSE IF cp <= 31
            THEN <<BACKSLASH, 117, 48, 48, 49,
                   48 + (cp - 16) + (IF cp >= 26 THEN 97 - 58 ELSE 0)>>
            ELSE << >>

\* The loop of scrambleStr: s[b:c] is the run not yet written (b, c count from 0).
RECURSIVE scrambleLoop(_, _, _, _)
scrambleLoop(d, s, b, c) ==
    IF c = Len(s)
    THEN IF c # b THEN put(d, SubSeq(s, b + 1, c)) ELSE d
    ELSE LET with == escapeOf(s[c + 1])
         IN  IF with # << >>
             THEN scrambleLoop(put(put(d, SubSeq(s, b + 1, c)), with), s, c + 1, c + 1)
             ELSE scrambleLoop(d, s, b, c + 1)

scrambleStr(d, s) ==
    IF s = << >> \/ hadError(d) THEN d ELSE scrambleLoop(d, s, 0, 0)

marshalString(d, v) == put(scrambleStr(put(d, <<QUOTE>>), v), <<QUOTE>>)

marshalFloat64(d, v) ==
    LET d1 == IF v.cls # "fin"
              THEN handleError(d, [e |-> "unsupported float value"])
              ELSE d
    IN  put(d1, FormatFloat(v, d.floatPrecision))

(***************************************************************************)
(* Arrays and objects (decorator.go).                                      *)
(***************************************************************************)
objectField(d, name, first) ==
    put(scrambleStr(put(d, IF first THEN <<LBRACE, QUOTE>> ELSE <<COMMA, QUOTE>>),
                    name),
        <<QUOTE, COLON>>)

\* objectEnd closing a non-empty object with a bracket.
objectEndBracket(d, wasEmpty) ==
    IF wasEmpty THEN put(d, <<LBRACE, RBRACE>>) ELSE put(d, <<RBRACKET>>)

objectEnd(d, wasEmpty) ==
    IF wasEmpty THEN put(d, <<LBRACE, RBRACE>>) ELSE put(d, <<RBRACE>>)

\* arrayElement that writes a comma before every element, the first included.
arrayElementAlwaysComma(d, first) == put(d, <<COMMA>>)

arrayElement(d, first) ==
    IF first THEN put(d, <<LBRACKET>>) ELSE put(d, <<COMMA>>)

\* arrayEnd without the empty form.
arrayEndNoEmptyForm(d, wasEmpty) == put(d, <<RBRACKET>>)

arrayEnd(d, wasEmpty) ==
    IF wasEmpty THEN put(d, <<LBRACKET, RBRACKET>>) ELSE put(d, <<RBRACKET>>)


(***************************************************************************)
(* Go values, as marshalValue sees them through reflection:                *)
(*   [k |-> "nil"]                     the nil interface                   *)
(*   [k |-> "ptr", isnil, e]           a pointer, e its pointee            *)
(*   [k |-> "iface", e]                an interface-typed pointee          *)
(*   [k |-> "func", w, withErr, calls, ret]                                *)
(*        func(ArrayWriter) [error] (w = "arr"), func(ObjectWriter)        *)
(*        [error] (w = "obj"): calls are the Element / Member calls its    *)
(*        body makes, ret the error it returns                             *)
(*   [k |-> "custom", jsn, jsnRecv, text, textRecv, calls, str, ret,       *)
(*    under]                                                               *)
(*        a named type with methods: jsn is the MarshalJSN it declares     *)
(*        ("obj", "arr", "str" or "none") on receiver jsnRecv ("val" or    *)
(*        "ptr"), text whether it declares MarshalText, on receiver        *)
(*        textRecv; under is the value of its underlying kind              *)
(*   [k |-> "slice", es]  [k |-> "map", keyKind, pairs]  (pairs in the     *)
(*        map's iteration order)                                           *)
(*   [k |-> "int", n]  [k |-> "uint", n]  [k |-> "float", cls, neg, m, e]  *)
(*   [k |-> "string", s]  [k |-> "bool", b]  [k |-> "bytes", s]            *)
(*   [k |-> "other", typ]              a struct, channel, complex, ...     *)
(***************************************************************************)
typeOf(v) ==
    CASE v.k = "other" -> v.typ
      [] v.k = "map" -> "map[int]interface {}"
      [] v.k = "func" -> IF v.w = "arr" THEN "func(jsn.ArrayWriter)"
                         ELSE "func(jsn.ObjectWriter)"
      [] v.k = "custom" -> "jsn.custom"
      [] OTHER -> v.k

UnsupportedTypeError(typ) == [e |-> "UnsupportedTypeError", Type |-> typ]

\* typ.Implements(...) on the value's own type, and on the pointer to it.
implements(v, cap, onPtr) ==
    /\ v.k = "custom"
    /\ IF cap = "text"
       THEN v.text /\ (onPtr \/ v.textRecv = "val")
       ELSE v.jsn = cap /\ (onPtr \/ v.jsnRecv = "val")

\* Byte-wise s < t of Go strings.
RECURSIVE strLess(_, _)
strLess(s, t) ==
    IF t = << >> THEN FALSE
    ELSE IF s = << >> THEN TRUE
    ELSE IF s[1] # t[1] THEN s[1] < t[1]
    ELSE strLess(Tail(s), Tail(t))

\* sort.Slice(pairs, less on the keys): the keys of a map are distinct, so the
\* result is the one ascending arrangement.
RECURSIVE insertPair(_, _)
insertPair(sorted, p) ==
    IF sorted = << >> THEN <<p>>
    ELSE IF strLess(p.k, sorted[1].k) THEN <<p>> \o sorted
    ELSE <<sorted[1]>> \o insertPair(Tail(sorted), p)

\* The pairs left in the iteration order of the map.
sortPairsNone(pairs) == pairs

RECURSIVE sortPairs(_)
sortPairs(pairs) ==
    IF pairs = << >> THEN << >>
    ELSE insertPair(sortPairs(Tail(pairs)), pairs[1])

RECURSIVE marshalValue(_, _)
RECURSIVE runProc(_, _, _, _)
RECURSIVE marshalElems(_, _, _)
RECURSIVE marshalPairs(_, _, _)

\* arrayWriter.Element and objectWriter.Member (writer.go); the caller keeps
\* the counter.
arrayWriterElement(d, elementCounter, v) ==
    marshalValue(arrayElement(d, elementCounter = 0), v)

objectWriterMember(d, fieldCounter, key, v) ==
    marshalValue(objectField(d, key, fieldCounter = 0), v)

\* The body of a user procedure or marshaler: its calls from the i-th on, each
\* on the Builder it was handed.
runProc(d, w, calls, i) ==
    IF i > Len(calls) THEN d
    ELSE runProc(IF w = "arr"
                 THEN arrayWriterElement(d, i - 1, calls[i].v)
                 ELSE objectWriterMember(d, i - 1, calls[i].key, calls[i].v),
                 w, calls, i + 1)

marshalObj(d, m) ==
    IF hadError(d) THEN d
    ELSE LET d1 == runProc(logCall(d, "obj"), "obj", m.calls, 1)
             d2 == IF m.ret # NoError THEN handleError(d1, m.ret) ELSE d1
         IN  objectEnd(d2, Len(m.calls) = 0)

marshalArr(d, m) ==
    IF hadError(d) THEN d
    ELSE LET d1 == runProc(logCall(d, "arr"), "arr", m.calls, 1)
             d2 == IF m.ret # NoError THEN handleError(d1, m.ret) ELSE d1
         IN  arrayEnd(d2, Len(m.calls) = 0)

\* case func(ArrayWriter), func(ArrayWriter) error, func(ObjectWriter),
\* func(ObjectWriter) error.
marshalFunc(d, f) ==
    LET d1 == runProc(logCall(d, "func"), f.w, f.calls, 1)
    IN  IF f.withErr /\ f.ret # NoError
        THEN handleError(d1, f.ret)
        ELSE IF f.w = "arr" THEN arrayEnd(d1, Len(f.calls) = 0)
             ELSE objectEnd(d1, Len(f.calls) = 0)

\* for val.Kind() == reflect.Interface || val.Kind() == reflect.Ptr: the value
\* reached, whether a nil was met, and whether the value is addressable.
RECURSIVE unwrap(_, _)
unwrap(val, addr) ==
    IF val.k = "ptr"
    THEN IF val.isnil THEN [isnil |-> TRUE, val |-> val, addr |-> addr]
         ELSE unwrap(val.e, TRUE)
    ELSE IF val.k = "iface"
    THEN IF val.e.k = "nil" THEN [isnil |-> TRUE, val |-> val, addr |-> addr]
         ELSE unwrap(val.e, FALSE)
    ELSE [isnil |-> FALSE, val |-> val, addr |-> addr]

\* The capability check with the addressable view tried before the value.
capabilityOfPtrFirst(val, addr) ==
    CASE addr /\ implements(val, "obj", TRUE) -> [cap |-> "obj", onPtr |-> TRUE]
      [] addr /\ implements(val, "arr", TRUE) -> [cap |-> "arr", onPtr |-> TRUE]
      [] addr /\ implements(val, "str", TRUE) -> [cap |-> "str", onPtr |-> TRUE]
      [] addr /\ implements(val, "text", TRUE) -> [cap |-> "text", onPtr |-> TRUE]
      [] implements(val, "obj", FALSE) -> [cap |-> "obj", onPtr |-> FALSE]
      [] implements(val, "arr", FALSE) -> [cap |-> "arr", onPtr |-> FALSE]
      [] implements(val, "str", FALSE) -> [cap |-> "str", onPtr |-> FALSE]
      [] implements(val, "text", FALSE) -> [cap |-> "text", onPtr |-> FALSE]
      [] OTHER -> [cap |-> "none", onPtr |-> FALSE]

\* The capability marshalValue invokes for val: "none" when none applies.
capabilityOf(val, addr) ==
    CASE implements(val, "obj", FALSE) -> [cap |-> "obj", onPtr |-> FALSE]
      [] implements(val, "arr", FALSE) -> [cap |-> "arr", onPtr |-> FALSE]
      [] implements(val, "str", FALSE) -> [cap |-> "str", onPtr |-> FALSE]
      [] implements(val, "text", FALSE) -> [cap |-> "text", onPtr |-> FALSE]
      [] addr /\ implements(val, "obj", TRUE) -> [cap |-> "obj", onPtr |-> TRUE]
      [] addr /\ implements(val, "arr", TRUE) -> [cap |-> "arr", onPtr |-> TRUE]
      [] addr /\ implements(val, "str", TRUE) -> [cap |-> "str", onPtr |-> TRUE]
      [] addr /\ implements(val, "text", TRUE) -> [cap |-> "text", onPtr |-> TRUE]
      [] OTHER -> [cap |-> "none", onPtr |-> FALSE]

\* The StrMarshaler and TextMarshaler branches.
marshalStrCap(d, val, c) ==
    LET d1 == logCall(d, c.cap)
    IN  IF val.ret # NoError
        THEN IF c.cap = "text" /\ ~c.onPtr
             THEN marshalString(handleError(d1, val.ret), << >>)
             ELSE handleError(d1, val.ret)
        ELSE marshalString(d1, val.str)

\* marshalKind writing null for a value of no supported kind.
marshalKindNullForOthers(d, val) ==
    CASE val.k = "slice" -> marshalElems(d, val.es, 1)
      [] val.k = "map" /\ val.keyKind = "string" ->
            marshalPairs(d, sortPairs(val.pairs), 1)
      [] val.k \in {"int", "uint"} -> put(d, FormatInt(val.n))
      [] val.k = "float" -> marshalFloat64(d, val)
      [] val.k = "string" -> marshalString(d, val.s)
      [] val.k = "bool" -> marshalBool(d, val.b)
      [] val.k = "bytes" -> marshalString(d, val.s)
      [] OTHER -> marshalNull(d)

\* The built-in kinds: sequences, string-keyed maps, scalars.
marshalKind(d, val) ==
    CASE val.k = "slice" -> marshalElems(d, val.es, 1)
      [] val.k = "map" /\ val.keyKind = "string" ->
            marshalPairs(d, sortPairs(val.pairs), 1)
      [] val.k \in {"int", "uint"} -> put(d, FormatInt(val.n))
      [] val.k = "float" -> marshalFloat64(d, val)
      [] val.k = "string" -> marshalString(d, val.s)
      [] val.k = "bool" -> marshalBool(d, val.b)
      [] val.k = "bytes" -> marshalString(d, val.s)
      [] OTHER -> handleError(d, UnsupportedTypeError(typeOf(val)))

marshalElems(d, es, i) ==
    IF i > Len(es) THEN arrayEnd(d, Len(es) = 0)
    ELSE LET d1 == marshalValue(arrayElement(d, i = 1), es[i])
         IN  IF hadError(d1) THEN d1 ELSE marshalElems(d1, es, i + 1)

marshalPairs(d, pairs, i) ==
    IF i > Len(pairs) THEN objectEnd(d, Len(pairs) = 0)
    ELSE LET d1 == marshalValue(objectField(d, pairs[i].k, i = 1), pairs[i].v)
         IN  IF hadError(d1) THEN d1 ELSE marshalPairs(d1, pairs, i + 1)

marshalValue(d, v) ==
    IF hadError(d) THEN d
    ELSE IF v.k = "nil" THEN marshalNull(d)
    ELSE LET d1 == IF v.k = "ptr" /\ v.isnil THEN marshalNull(d) ELSE d
         IN  IF v.k = "func" THEN marshalFunc(d1, v)
             ELSE LET u == unwrap(v, FALSE)
                  IN  IF u.isnil THEN marshalNull(d1)
                      ELSE LET c == capabilityOf(u.val, u.addr)
                           IN  CASE c.cap = "obj" -> marshalObj(d1, u.val)
                                 [] c.cap = "arr" -> marshalArr(d1, u.val)
                                 [] c.cap \in {"str", "text"} ->
                                        marshalStrCap(d1, u.val, c)
                                 [] OTHER ->
                                        marshalKind(d1, IF u.val.k = "custom"
                                                        THEN u.val.under
                                                        ELSE u.val)

\* parseMarshalOptions and Marshal (writer.go): opts is a sequence of
\* FloatPrecision values.
RECURSIVE parseMarshalOptions(_, _)
parseMarshalOptions(opts, precision) ==
    IF opts = << >> THEN [precision |-> precision, err |-> NoError]
    ELSE IF opts[1] < 0
    THEN [precision |-> 0, err |-> [e |-> "invalid float precision", p |-> opts[1]]]
    ELSE parseMarshalOptions(Tail(opts), opts[1])

DefaultPrecision == 6

\* Marshal looking at the error of its options only after it has marshalled.
MarshalDeferred(v, opts) ==
    LET o == parseMarshalOptions(opts, DefaultPrecision)
        d0 == newDecorator(IF o.err # NoError THEN DefaultPrecision ELSE o.precision,
                           -1, 0)
        d == handleError(marshalValue(d0, v), o.err)
    IN  IF d.err # NoError THEN [s |-> << >>, err |-> d.err, d |-> d]
        ELSE [s |-> d.out, err |-> NoError, d |-> d]

\* The result is Marshal's (string, error), with d the decorator Marshal made,
\* as it is on return.
Marshal(v, opts) ==
    LET o == parseMarshalOptions(opts, DefaultPrecision)
        d0 == newDecorator(o.precision, -1, 0)
    IN  IF o.err # NoError THEN [s |-> << >>, err |-> o.err, d |-> d0]
        ELSE LET d == marshalValue(d0, v)
             IN  IF d.err # NoError THEN [s |-> << >>, err |-> d.err, d |-> d]
                 ELSE [s |-> d.out, err |-> NoError, d |-> d]


(***************************************************************************)
(* The values the model marshals.                                          *)
(***************************************************************************)
Nil == [k |-> "nil"]
NilPtr == [k |-> "ptr", isnil |-> TRUE, e |-> Nil]
PtrTo(v) == [k |-> "ptr", isnil |-> FALSE, e |-> v]
Iface(v) == [k |-> "iface", e |-> v]
IntV(n) == [k |-> "int", n |-> n]
StrV(s) == [k |-> "string", s |-> s]
BoolV(b) == [k |-> "bool", b |-> b]
BytesV(s) == [k |-> "bytes", s |-> s]
FloatV(neg, m, e) == [k |-> "float", cls |-> "fin", neg |-> neg, m |-> m, e |-> e]
NaN == [k |-> "float", cls |-> "nan", neg |-> FALSE, m |-> 0, e |-> 0]
Inf(neg) == [k |-> "float", cls |-> "inf", neg |-> neg, m |-> 0, e |-> 0]
Other(typ) == [k |-> "other", typ |-> typ]
SliceV(es) == [k |-> "slice", es |-> es]
MapV(pairs) == [k |-> "map", keyKind |-> "string", pairs |-> pairs]
IntKeyMap == [k |-> "map", keyKind |-> "int", pairs |-> << >>]
Pair(key, v) == [k |-> key, v |-> v]
Call(key, v) == [key |-> key, v |-> v]
FuncV(w, withErr, calls, r) ==
    [k |-> "func", w |-> w, withErr |-> withErr, calls |-> calls, ret |-> r]
Custom(jsn, jsnRecv, text, textRecv, calls, r, under) ==
    [k |-> "custom", jsn |-> jsn, jsnRecv |-> jsnRecv, text |-> text,
     textRecv |-> textRecv, calls |-> calls, str |-> <<115>>, ret |-> r,
     under |-> under]
UserErr(id) == [e |-> "user", id |-> id]

KeyA == <<97>>
KeyB == <<98>>
KeyAB == <<97, 98>>
KeyUpperB == <<66>>


\* Nil references: the nil interface and nil pointers behind up to MaxPtrDepth
\* indirections.
RECURSIVE PtrChain(_, _)
PtrChain(v, n) == IF n = 0 THEN v ELSE PtrTo(PtrChain(v, n - 1))

NilRefs ==
    {Nil} \cup {PtrChain(NilPtr, n) : n \in 0..MaxPtrDepth}
          \cup {PtrChain(Iface(Nil), n) : n \in 1..MaxPtrDepth}

\* Nil references as an array element or an object member value.
NilHolders ==
    UNION {{SliceV(<<r>>), SliceV(<<IntV(1), r>>), MapV(<<Pair(KeyA, r)>>),
            FuncV("arr", FALSE, <<Call(<< >>, r)>>, NoError),
            FuncV("obj", FALSE, <<Call(KeyA, r)>>, NoError)} : r \in NilRefs}

\* Named types with every combination of capabilities the method sets of Go
\* allow (one MarshalJSN at most, plus MarshalText), by value and by pointer.
CustomCalls(jsn) ==
    IF jsn = "obj" THEN <<Call(KeyA, IntV(1))>>
    ELSE IF jsn = "arr" THEN <<Call(<< >>, IntV(1))>>
    ELSE << >>

Customs ==
    {Custom(jsn, jr, tx, tr, CustomCalls(jsn), r, IntV(7)) :
        jsn \in {"none", "obj", "arr", "str"}, jr \in {"val", "ptr"},
        tx \in BOOLEAN, tr \in {"val", "ptr"}, r \in {NoError, UserErr(1)}}

CustomValues == Customs \cup {PtrTo(c) : c \in Customs}

\* String-keyed maps: every iteration order of every key set up to MaxKeys keys;
\* the value of a key is the same in every map.
MapKeys == {KeyA, KeyB, KeyAB, KeyUpperB}
KeyValue(key) == IntV(Len(key) * 100 + key[1])

KeyOrders ==
    {ks \in UNION {[1..n -> MapKeys] : n \in 0..MaxKeys} :
        \A i, j \in DOMAIN ks : i # j => ks[i] # ks[j]}

MapOf(ks) == MapV([i \in DOMAIN ks |-> Pair(ks[i], KeyValue(ks[i]))])

Maps == {MapOf(ks) : ks \in KeyOrders}

\* Containers to which nothing is added.
EmptyContainers ==
    {SliceV(<< >>), MapV(<< >>), PtrTo(SliceV(<< >>)),
     Custom("arr", "val", FALSE, "val", << >>, NoError, IntV(7)),
     Custom("obj", "val", FALSE, "val", << >>, NoError, IntV(7)),
     PtrTo(Custom("arr", "ptr", FALSE, "val", << >>, NoError, IntV(7))),
     FuncV("arr", FALSE, << >>, NoError), FuncV("arr", TRUE, << >>, NoError),
     FuncV("obj", FALSE, << >>, NoError), FuncV("obj", TRUE, << >>, NoError)}

Scalars ==
    {IntV(0), IntV(-12), StrV(<<97, 10>>), BoolV(TRUE), BoolV(FALSE),
     FloatV(FALSE, 314, -2), NaN, Inf(TRUE), BytesV(<<104, 105>>), BytesV(<< >>),
     Other("chan int"), Other("jsn.plain"), IntKeyMap}

\* The arguments of Marshal.
TopValues ==
    NilRefs \cup NilHolders \cup CustomValues \cup Maps \cup EmptyContainers
    \cup Scalars

\* The arguments of marshalValue, Element and Member in a decorator session.
ArgValues ==
    {Nil, NilPtr, IntV(1), StrV(<<97, 10>>), Other("chan int"), NaN,
     SliceV(<<IntV(1), IntV(2)>>),
     FuncV("obj", TRUE, <<Call(KeyA, IntV(1))>>, UserErr(2)),
     Custom("arr", "val", FALSE, "val", <<Call(<< >>, IntV(1))>>, NoError, IntV(7))}

(***************************************************************************)
(* The decorator session: marshalValue called on one decorator, and the    *)
(* Builder handed to a user procedure.  aw is                              *)
(*   kind     "none", or "arr" / "obj": the Builder of the procedure       *)
(*   open     whether the procedure is running                             *)
(*   counter  its elementCounter / fieldCounter                            *)
(*   owner    who closes it: "func" (func(W)), "funcErr" (func(W) error),  *)
(*            "cap" (marshalArr / marshalObj)                              *)
(*   n        the marshalValue calls made on the decorator so far          *)
(* A session is a run of marshalValue calls or the run of one procedure.   *)
(***************************************************************************)
NoWriter ==
    [kind |-> "none", open |-> FALSE, counter |-> 0, owner |-> "func", n |-> 0]
NoReturn == [s |-> << >>, err |-> NoError, d |-> newDecorator(DefaultPrecision, -1, 0)]
NoCallback ==
    [mode |-> "none", failAt |-> 0, calls |-> << >>, obj |-> << >>, arr |-> << >>]
NoResult ==
    [val |-> [t |-> "none"], err |-> NoError, fin |-> [e |-> "none"],
     cb |-> NoCallback]

ScannerIdle ==
    /\ data = << >>
    /\ cur = 0
    /\ flags = {}
    /\ res = NoResult
    /\ mark = 0

Init ==
    /\ \E okWrites \in -1..MaxWrites, keep \in 0..1 :
          dec = newDecorator(DefaultPrecision, okWrites, keep)
    /\ aw = NoWriter
    /\ op = [name |-> "init", v |-> Nil, key |-> << >>, pre |-> dec]
    /\ ret = NoReturn
    /\ ScannerIdle

\* Marshal(v): its decorator is its own; ret.d is that decorator on return.
MarshalCall ==
    /\ op.name = "init"
    /\ \E v \in TopValues :
          /\ ret' = Marshal(v, << >>)
          /\ op' = [name |-> "Marshal", v |-> v, key |-> << >>, pre |-> dec]
    /\ UNCHANGED <<dec, aw, data, cur, flags, res, mark>>

\* Marshal(v, FloatPrecision{p}, ...): opts holds the Precision of each option.
OptionLists == {<<3>>, <<0>>, <<-1>>, <<2, -1>>, <<-1, 2>>, <<-2, -1>>}

MarshalOptionsCall ==
    /\ op.name = "init"
    /\ \E v \in TopValues, opts \in OptionLists :
          /\ ret' = Marshal(v, opts)
          /\ op' = [name |-> "MarshalOptions", v |-> v, key |-> << >>, pre |-> dec,
                    opts |-> opts]
    /\ UNCHANGED <<dec, aw, data, cur, flags, res, mark>>

\* d.marshalValue(v) for a value that runs no user procedure of the session.
MarshalValueCall ==
    /\ aw.kind = "none"
    /\ aw.n < MaxCalls
    /\ op.name \in {"init", "marshalValue"}
    /\ \E v \in ArgValues :
          /\ dec' = marshalValue(dec, v)
          /\ op' = [name |-> "marshalValue", v |-> v, key |-> << >>, pre |-> dec]
    /\ aw' = [aw EXCEPT !.n = @ + 1]
    /\ UNCHANGED <<ret, data, cur, flags, res, mark>>

\* d.marshalValue(f) for a procedure f, or marshalArr / marshalObj, up to the
\* call of the user's code: the Builder is made and handed over.
ProcBegin ==
    /\ op.name = "init"
    /\ \E w \in {"arr", "obj"}, owner \in {"func", "funcErr", "cap"} :
          /\ aw' = [kind |-> w, open |-> TRUE, counter |-> 0, owner |-> owner,
                    n |-> aw.n]
          /\ dec' = logCall(dec, IF owner = "cap" THEN w ELSE "func")
          /\ op' = [name |-> "begin", v |-> Nil, key |-> << >>, pre |-> dec]
    /\ UNCHANGED <<ret, data, cur, flags, res, mark>>

\* w.Element(v), called by the running procedure.
Element ==
    /\ aw.kind = "arr" /\ aw.open
    /\ aw.counter < MaxCalls
    /\ \E v \in ArgValues :
          /\ dec' = arrayWriterElement(dec, aw.counter, v)
          /\ op' = [name |-> "Element", v |-> v, key |-> << >>, pre |-> dec]
    /\ aw' = [aw EXCEPT !.counter = @ + 1]
    /\ UNCHANGED <<ret, data, cur, flags, res, mark>>

\* w.Member(key, v), called by the running procedure.
Member ==
    /\ aw.kind = "obj" /\ aw.open
    /\ aw.counter < MaxCalls
    /\ \E key \in {KeyA, KeyB}, v \in ArgValues :
          /\ dec' = objectWriterMember(dec, aw.counter, key, v)
          /\ op' = [name |-> "Member", v |-> v, key |-> key, pre |-> dec]
    /\ aw' = [aw EXCEPT !.counter = @ + 1]
    /\ UNCHANGED <<ret, data, cur, flags, res, mark>>

\* The running procedure returns e and its owner closes the container.
procEnd(d, w, e) ==
    LET d1 == IF e # NoError THEN handleError(d, e) ELSE d
    IN  IF w.owner = "funcErr" /\ e # NoError THEN d1
        ELSE IF w.kind = "arr" THEN arrayEnd(d1, w.counter = 0)
        ELSE objectEnd(d1, w.counter = 0)

ProcReturn ==
    /\ aw.open
    /\ \E e \in {NoError, UserErr(1)} :
          /\ aw.owner = "func" => e = NoError
          /\ dec' = procEnd(dec, aw, e)
          /\ op' = [name |-> "return", v |-> Nil, key |-> << >>, pre |-> dec]
    /\ aw' = [aw EXCEPT !.open = FALSE]
    /\ UNCHANGED <<ret, data, cur, flags, res, mark>>

Next ==
    \/ MarshalCall
    \/ MarshalOptionsCall
    \/ MarshalValueCall
    \/ ProcBegin
    \/ Element
    \/ Member
    \/ ProcReturn

Spec == Init /\ [][Next]_vars


(***************************************************************************)
(* Properties of the marshaling engine.                                    *)
(***************************************************************************)
IsPrefix(s, t) == Len(s) <= Len(t) /\ SubSeq(t, 1, Len(s)) = s

\* The text of v marshaled alone, by a decorator whose sink never fails.
ValueText(v) == marshalValue(newDecorator(DefaultPrecision, -1, 0), v).out

\* The text a container holding one nil reference must have.
NilHolderText(v) ==
    CASE v.k = "slice" /\ Len(v.es) = 1 -> <<LBRACKET>> \o Str_null \o <<RBRACKET>>
      [] v.k = "slice" /\ Len(v.es) = 2 ->
            <<LBRACKET, 49, COMMA>> \o Str_null \o <<RBRACKET>>
      [] v.k = "func" /\ v.w = "arr" -> <<LBRACKET>> \o Str_null \o <<RBRACKET>>
      [] OTHER -> <<LBRACE, QUOTE, 97, QUOTE, COLON>> \o Str_null \o <<RBRACE>>

\* C1: Marshal of the nil interface or of a nil pointer, behind any number of
\* indirections, at top level or as an array element or object member value,
\* emits the text null exactly once for it, with no error.
C1_NilEmitsNullOnce ==
    /\ (op.name = "Marshal" /\ op.v \in NilRefs)
          => (ret.err = NoError /\ ret.s = Str_null)
    /\ (op.name = "Marshal" /\ op.v \in NilHolders)
          => (ret.err = NoError /\ ret.s = NilHolderText(op.v))
    /\ (op.name = "Element" /\ op.v \in NilRefs /\ ~hadError(dec))
          => dec.out = op.pre.out
                       \o (IF aw.counter = 1 THEN <<LBRACKET>> ELSE <<COMMA>>)
                       \o Str_null

\* The capabilities a named type declares on its value (onPtr = FALSE) or on a
\* pointer to it, and the one of highest priority among a set of them.
Declared(c, onPtr) ==
    {cap \in {"obj", "arr", "str", "text"} : implements(c, cap, onPtr)}

CapRank(cap) ==
    CASE cap = "obj" -> 1 [] cap = "arr" -> 2 [] cap = "str" -> 3 [] OTHER -> 4

First(caps) == CHOOSE c \in caps : \A x \in caps : CapRank(c) <= CapRank(x)

ExpectedCap(v) ==
    LET c == IF v.k = "ptr" THEN v.e ELSE v
        onVal == Declared(c, FALSE)
        onPtr == Declared(c, TRUE)
    IN  IF onVal # {} THEN First(onVal)
        ELSE IF v.k = "ptr" /\ onPtr # {} THEN First(onPtr)
        ELSE "none"

\* C2: for a non-nil value that is no array/object-producing function,
\* marshalValue invokes exactly one capability: the first that applies in the
\* order object > array > string > text on the value itself, and only if none
\* applies there the first that applies on its addressable view; a value with
\* a capability is not encoded by its underlying kind.
C2_CapabilityPriority ==
    (op.name = "Marshal" /\ op.v \in CustomValues) =>
        LET x == ExpectedCap(op.v)
        IN  IF x = "none"
            THEN ret.d.log = << >> /\ ret.s = FormatInt(7)
            ELSE ret.d.log = <<x>> /\ ret.s # FormatInt(7)

C2_Witness ==
    /\ op.name = "Marshal"
    /\ op.v \in CustomValues
    /\ op.v.k = "ptr"
    /\ op.v.e.jsn = "obj" /\ op.v.e.jsnRecv = "ptr"
    /\ op.v.e.text /\ op.v.e.textRecv = "val"
    /\ ret.d.log = <<"text">>
    /\ ret.err = NoError

\* The keys of a map in strictly ascending byte order.
Ascending(m) ==
    CHOOSE ks \in KeyOrders :
        /\ {ks[i] : i \in DOMAIN ks} = {m.pairs[i].k : i \in DOMAIN m.pairs}
        /\ \A i, j \in DOMAIN ks : i < j => strLess(ks[i], ks[j])

RECURSIVE MembersText(_, _)
MembersText(ks, i) ==
    IF i > Len(ks) THEN << >>
    ELSE (IF i = 1 THEN << >> ELSE <<COMMA>>)
         \o <<QUOTE>> \o ks[i] \o <<QUOTE, COLON>> \o FormatInt(KeyValue(ks[i]).n)
         \o MembersText(ks, i + 1)

ObjectText(ks) == <<LBRACE>> \o MembersText(ks, 1) \o <<RBRACE>>

\* C3: Marshal of a string-keyed map emits its members in strictly ascending
\* byte order of the keys, with no whitespace, whatever the iteration order of
\* the map: equal maps give the same text.
C3_MapKeysSorted ==
    (op.name = "Marshal" /\ op.v \in Maps) =>
        /\ ret.err = NoError
        /\ ret.s = ObjectText(Ascending(op.v))
        /\ \A i \in DOMAIN ret.s : ret.s[i] \notin {32, 9, 10, 13}

C3_Witness ==
    /\ op.name = "Marshal"
    /\ op.v = MapOf(<<KeyB, KeyAB, KeyUpperB>>)
    /\ ret.s = ObjectText(<<KeyUpperB, KeyAB, KeyB>>)

\* C4: while no error is latched, the first Element (Member) call on a Builder
\* emits the opening bracket (brace) with no comma, every later call emits one
\* comma before its element (key), and the owner closes a Builder that received
\* calls with a single closing bracket (brace).
C4_BuilderSeparators ==
    /\ (op.name = "Element" /\ ~hadError(dec)) =>
          dec.out = op.pre.out
                    \o (IF aw.counter = 1 THEN <<LBRACKET>> ELSE <<COMMA>>)
                    \o ValueText(op.v)
    /\ (op.name = "Member" /\ ~hadError(dec)) =>
          dec.out = op.pre.out
                    \o (IF aw.counter = 1 THEN <<LBRACE>> ELSE <<COMMA>>)
                    \o <<QUOTE>> \o op.key \o <<QUOTE, COLON>>
                    \o ValueText(op.v)
    /\ (op.name = "return" /\ ~hadError(dec) /\ aw.counter >= 1) =>
          dec.out = op.pre.out
                    \o (IF aw.kind = "arr" THEN <<RBRACKET>> ELSE <<RBRACE>>)

C4_Witness ==
    /\ op.name = "return"
    /\ aw.kind = "arr"
    /\ aw.counter = 2
    /\ ~hadError(dec)
    /\ dec.out = <<LBRACKET, 49, COMMA>> \o Str_null \o <<RBRACKET>>

ProducesArray(v) ==
    LET c == IF v.k = "ptr" THEN v.e ELSE v
    IN  \/ c.k = "slice"
        \/ c.k = "func" /\ c.w = "arr"
        \/ c.k = "custom" /\ c.jsn = "arr"

\* C5: a container to which nothing is added encodes to exactly [] or {}: an
\* empty slice, an empty map, an array/object marshaler and an array/object
\* producing function that add nothing.
C5_EmptyContainers ==
    /\ (op.name = "Marshal" /\ op.v \in EmptyContainers) =>
          /\ ret.err = NoError
          /\ ret.s = IF ProducesArray(op.v) THEN <<LBRACKET, RBRACKET>>
                     ELSE <<LBRACE, RBRACE>>
    /\ (op.name = "return" /\ aw.counter = 0 /\ ~hadError(dec)) =>
          dec.out = op.pre.out
                    \o (IF aw.kind = "arr" THEN <<LBRACKET, RBRACKET>>
                        ELSE <<LBRACE, RBRACE>>)

C5_Witness ==
    /\ op.name = "Marshal"
    /\ op.v = Custom("arr", "val", FALSE, "val", << >>, NoError, IntV(7))
    /\ ret.s = <<LBRACKET, RBRACKET>>

\* C6: the error slot is a latch: once it holds an error its value never
\* changes and no later call on the decorator writes a byte to the sink; the
\* bytes written before are not retracted.
C6_ErrorLatch ==
    [][/\ IsPrefix(dec.out, dec'.out)
       /\ hadError(dec) => (dec'.err = dec.err /\ dec'.out = dec.out)]_vars

C6_Witness ==
    /\ hadError(op.pre)
    /\ op.name \in {"Element", "Member", "marshalValue", "return"}
    /\ op.pre.out # << >>
    /\ dec = op.pre


(***************************************************************************)
(* Scanner (scanner.go).  data is the input, cur the cursor counted from   *)
(* 0, so the byte under the cursor is data[cur + 1].  An operation gives   *)
(* the cursor it leaves with what it returns.                              *)
(***************************************************************************)
ErrUnexpectedToken == [e |-> "unexpected token"]
ErrUnexpectedEOF == [e |-> "unexpected EOF"]
ErrInvalidNumber == [e |-> "invalid number"]
ErrInvalidString == [e |-> "invalid string"]
ErrInvalidUnicodeEscape == [e |-> "invalid unicode escape"]
ErrNumericValueOutOfRange == [e |-> "numeric value out of range"]

ScannerFlagDoNotSkipBOM == "DoNotSkipBOM"
ScannerFlagDoNotSkipInitialWhitespace == "DoNotSkipInitialWhitespace"

\* The decoded values: Go's nil (JSON null), bool, float64, string, []any,
\* map[string]any.
NilValue == [t |-> "nil"]
BoolValue(b) == [t |-> "bool", b |-> b]
NumValue(neg, m, e) == [t |-> "num", neg |-> neg, m |-> m, e |-> e]
StrValue(s) == [t |-> "str", s |-> s]
ArrValue(a) == [t |-> "arr", a |-> a]
ObjValue(m) == [t |-> "obj", m |-> m]
EmptyMap == [k \in {} |-> NilValue]

\* F(e), with e computed once: a statement's result, used by those after it.
With(e, F(_)) == CHOOSE r \in {F(x) : x \in {e}} : TRUE

IsEOF(d, c) == c >= Len(d)

\* SkipBOM taking the first two bytes of the mark for the mark.
SkipBOMLoose(d, c) ==
    IF Len(d) >= 2 /\ d[1] = 239 /\ d[2] = 187
    THEN [cur |-> c + (IF Len(d) >= 3 /\ d[3] = 191 THEN 3 ELSE 2), ok |-> TRUE]
    ELSE [cur |-> c, ok |-> FALSE]

SkipBOM(d, c) ==
    IF Len(d) >= 3 /\ d[1] = 239 /\ d[2] = 187 /\ d[3] = 191
    THEN [cur |-> c + 3, ok |-> TRUE]
    ELSE [cur |-> c, ok |-> FALSE]

peek(d, c) == IF c >= Len(d) THEN 0 ELSE d[c + 1]

next(d, c) ==
    IF c >= Len(d) THEN [cur |-> c, b |-> 0] ELSE [cur |-> c + 1, b |-> d[c + 1]]

skipByte(d, c, b) ==
    IF c >= Len(d) THEN [cur |-> c, ok |-> FALSE]
    ELSE IF d[c + 1] = b THEN [cur |-> c + 1, ok |-> TRUE]
    ELSE [cur |-> c, ok |-> FALSE]

\* IsWhitespace with the form feed added.
IsWhitespaceWithFormFeed(b) == b = 32 \/ b = 9 \/ b = 10 \/ b = 13 \/ b = 12

IsWhitespace(b) == b = 32 \/ b = 9 \/ b = 10 \/ b = 13

RECURSIVE skipWhitespace(_, _)
skipWhitespace(d, c) ==
    IF c < Len(d) /\ IsWhitespace(d[c + 1]) THEN skipWhitespace(d, c + 1) ELSE c

isDecimalDigit(d, c) == c < Len(d) /\ d[c + 1] >= 48 /\ d[c + 1] <= 57

RECURSIVE digitsEnd(_, _)
digitsEnd(d, c) == IF isDecimalDigit(d, c) THEN digitsEnd(d, c + 1) ELSE c

skipDecimalDigits(d, c) ==
    LET c1 == digitsEnd(d, c) IN [cur |-> c1, ok |-> c1 > c]

skipSequence(d, c, seq) ==
    IF c + Len(seq) > Len(d) THEN [cur |-> c, ok |-> FALSE]
    ELSE IF \E i \in 1..Len(seq) : d[c + i] # seq[i] THEN [cur |-> c, ok |-> FALSE]
    ELSE [cur |-> c + Len(seq), ok |-> TRUE]

\* strconv.ParseUint(hex, 16, 16) of four bytes: -1 when one is no hex digit.
hexVal(b) ==
    IF b >= 48 /\ b <= 57 THEN b - 48
    ELSE IF b >= 97 /\ b <= 102 THEN b - 97 + 10
    ELSE IF b >= 65 /\ b <= 70 THEN b - 65 + 10
    ELSE -1

parseUint16(h) ==
    IF \E i \in 1..4 : hexVal(h[i]) < 0 THEN -1
    ELSE hexVal(h[1]) * 4096 + hexVal(h[2]) * 256 + hexVal(h[3]) * 16 + hexVal(h[4])

parseUnicode(d, c) ==
    IF Len(d) < c + 4 THEN [cur |-> c, r |-> 0, err |-> ErrInvalidUnicodeEscape]
    ELSE LET v == parseUint16(SubSeq(d, c + 1, c + 4))
         IN  IF v < 0 THEN [cur |-> c + 4, r |-> 0, err |-> ErrInvalidUnicodeEscape]
             ELSE [cur |-> c + 4, r |-> v, err |-> NoError]

\* string(r) for a rune below 0x10000: its UTF-8 bytes, those of U+FFFD for a
\* surrogate half.
runeBytes(r) ==
    IF r < 128 THEN <<r>>
    ELSE IF r < 2048 THEN <<192 + (r \div 64), 128 + (r % 64)>>
    ELSE IF r >= 55296 /\ r <= 57343 THEN <<239, 191, 189>>
    ELSE <<224 + (r \div 4096), 128 + ((r \div 64) % 64), 128 + (r % 64)>>

\* An escape letter standing for itself.
escapedByteLetter(b) == b

\* The byte an escape letter stands for.
escapedByte(b) ==
    CASE b = 98 -> 8
      [] b = 102 -> 12
      [] b = 110 -> 10
      [] b = 114 -> 13
      [] b = 116 -> 9
      [] OTHER -> b

\* The fast path of parseString: from c to a quote, a backslash or an error.
RECURSIVE stringFast(_, _, _)
stringFast(d, c, start) ==
    IF c >= Len(d) THEN [cur |-> c, val |-> << >>, err |-> ErrInvalidString, esc |-> FALSE]
    ELSE LET b == d[c + 1]
         IN  IF b <= 31
             THEN [cur |-> c, val |-> << >>, err |-> ErrInvalidString, esc |-> FALSE]
             ELSE IF b = BACKSLASH
             THEN [cur |-> c, val |-> << >>, err |-> NoError, esc |-> TRUE]
             ELSE IF b = QUOTE
             THEN [cur |-> c + 1, val |-> SubSeq(d, start + 1, c), err |-> NoError,
                   esc |-> FALSE]
             ELSE stringFast(d, c + 1, start)

\* The slow path of parseString.
RECURSIVE stringSlow(_, _, _)
stringSlow(d, c, buf) ==
    With(next(d, c), LAMBDA n :
        IF n.b = 0 \/ n.b <= 31
        THEN [cur |-> n.cur, val |-> << >>, err |-> ErrInvalidString]
        ELSE IF n.b = QUOTE THEN [cur |-> n.cur, val |-> buf, err |-> NoError]
        ELSE IF n.b = BACKSLASH
        THEN IF n.cur >= Len(d)
             THEN [cur |-> n.cur, val |-> << >>, err |-> ErrInvalidString]
             ELSE With(peek(d, n.cur), LAMBDA e :
                      IF e \in {QUOTE, BACKSLASH, 47, 98, 102, 110, 114, 116}
                      THEN With(Append(buf, escapedByte(e)), LAMBDA buf1 :
                               stringSlow(d, n.cur + 1, buf1))
                      ELSE IF e = 117
                      THEN With(parseUnicode(d, n.cur + 1), LAMBDA u :
                               IF u.err # NoError
                               THEN [cur |-> u.cur, val |-> << >>, err |-> u.err]
                               ELSE With(buf \o runeBytes(u.r), LAMBDA buf1 :
                                        stringSlow(d, u.cur, buf1)))
                      ELSE [cur |-> n.cur, val |-> << >>, err |-> ErrInvalidString])
        ELSE With(Append(buf, n.b), LAMBDA buf1 : stringSlow(d, n.cur, buf1)))

parseString(d, c) ==
    IF peek(d, c) # QUOTE THEN [cur |-> c, val |-> << >>, err |-> ErrUnexpectedToken]
    ELSE LET f == stringFast(d, c + 1, c + 1)
         IN  IF f.esc THEN stringSlow(d, c + 1, << >>)
             ELSE [cur |-> f.cur, val |-> f.val, err |-> f.err]


(***************************************************************************)
(* Numbers (scanner.go, parseNumber).  strconv.ParseFloat of a literal the *)
(* grammar accepted, for literals of at most nine digits: the float64 is   *)
(* named by its decimal value [neg, m, e], m without trailing zeros.       *)
(***************************************************************************)
RECURSIVE digitsValue(_, _, _)
digitsValue(d, from, to) ==
    IF from > to THEN 0 ELSE digitsValue(d, from, to - 1) * 10 + (d[to] - 48)

RECURSIVE normalize(_, _)
normalize(m, e) ==
    IF m = 0 THEN [m |-> 0, e |-> 0]
    ELSE IF m % 10 = 0 THEN normalize(m \div 10, e + 1)
    ELSE [m |-> m, e |-> e]

\* The first nine digits of m, as a nine-digit number.
lead9(m) ==
    LET nd == NumDigits(m)
    IN  IF nd <= 9 THEN m * Pow10(9 - nd) ELSE m \div Pow10(nd - 9)

\* ParseFloat reporting a number out of range as a malformed one.
ParseFloatRangeAsSyntax(neg, m0, e0) ==
    LET n == normalize(m0, e0)
        dp == NumDigits(n.m) + n.e
    IN  IF n.m = 0 THEN [val |-> NumValue(neg, 0, 0), err |-> NoError]
        ELSE IF dp > 309 \/ (dp = 309 /\ lead9(n.m) >= 179769314)
        THEN [val |-> NumValue(neg, 0, 0), err |-> ErrInvalidNumber]
        ELSE IF dp < -323 THEN [val |-> NumValue(neg, 0, 0), err |-> NoError]
        ELSE [val |-> NumValue(neg, n.m, n.e), err |-> NoError]

\* The float64 nearest to (-1)^neg * m * 10^e: out of range above the largest
\* float64 (1.797693134862315708e308), zero below half the smallest.
ParseFloat(neg, m0, e0) ==
    LET n == normalize(m0, e0)
        dp == NumDigits(n.m) + n.e
    IN  IF n.m = 0 THEN [val |-> NumValue(neg, 0, 0), err |-> NoError]
        ELSE IF dp > 309 \/ (dp = 309 /\ lead9(n.m) >= 179769314)
        THEN [val |-> NumValue(neg, 0, 0), err |-> ErrNumericValueOutOfRange]
        ELSE IF dp < -323 THEN [val |-> NumValue(neg, 0, 0), err |-> NoError]
        ELSE [val |-> NumValue(neg, n.m, n.e), err |-> NoError]

\* An invalid number with the scanner rewound to the start of the buffer.
numberErrorRewind(c) ==
    [cur |-> 0, val |-> NumValue(FALSE, 0, 0), err |-> ErrInvalidNumber]

numberError(c) == [cur |-> c, val |-> NumValue(FALSE, 0, 0), err |-> ErrInvalidNumber]

\* The exponent part and the conversion: c is behind the fraction, intFrom..intTo
\* and fracFrom..fracTo are the places of the integer and fraction digits.
parseExponent(d, c, neg, m, fracLen) ==
    LET e1 == skipByte(d, c, 101)
        ex == IF e1.ok THEN e1 ELSE skipByte(d, c, 69)
    IN  IF ~ex.ok
        THEN LET f == ParseFloat(neg, m, 0 - fracLen)
             IN  [cur |-> c, val |-> IF f.err = NoError THEN f.val
                                     ELSE NumValue(FALSE, 0, 0),
                  err |-> f.err]
        ELSE LET plus == skipByte(d, ex.cur, 43)
                 minus == IF plus.ok THEN [cur |-> plus.cur, ok |-> FALSE]
                          ELSE skipByte(d, ex.cur, MINUS)
                 ds == skipDecimalDigits(d, minus.cur)
                 e2 == skipByte(d, ds.cur, 101)
                 again == IF e2.ok THEN e2 ELSE skipByte(d, ds.cur, 69)
             IN  IF ~ds.ok THEN numberError(ds.cur)
                 ELSE IF again.ok THEN numberError(again.cur)
                 ELSE LET ev == digitsValue(d, minus.cur + 1, ds.cur)
                          f == ParseFloat(neg, m,
                                          (IF minus.ok THEN 0 - ev ELSE ev) - fracLen)
                      IN  [cur |-> ds.cur,
                           val |-> IF f.err = NoError THEN f.val
                                   ELSE NumValue(FALSE, 0, 0),
                           err |-> f.err]

\* The fraction part without the test for a second dot behind it.
parseFractionNoSecondDot(d, c, neg, intFrom) ==
    LET dot == skipByte(d, c, 46)
        ds == skipDecimalDigits(d, dot.cur)
    IN  IF ~dot.ok
        THEN parseExponent(d, c, neg, digitsValue(d, intFrom + 1, c), 0)
        ELSE IF ~ds.ok THEN numberError(ds.cur)
        ELSE parseExponent(d, ds.cur, neg,
                           digitsValue(d, intFrom + 1, c) * Pow10(ds.cur - dot.cur)
                               + digitsValue(d, dot.cur + 1, ds.cur),
                           ds.cur - dot.cur)

\* The fraction part: c is behind the integer digits intFrom + 1..c.
parseFraction(d, c, neg, intFrom) ==
    LET dot == skipByte(d, c, 46)
        ds == skipDecimalDigits(d, dot.cur)
        dot2 == skipByte(d, ds.cur, 46)
    IN  IF ~dot.ok
        THEN parseExponent(d, c, neg, digitsValue(d, intFrom + 1, c), 0)
        ELSE IF ~ds.ok THEN numberError(ds.cur)
        ELSE IF dot2.ok THEN numberError(dot2.cur)
        ELSE parseExponent(d, ds.cur, neg,
                           digitsValue(d, intFrom + 1, c) * Pow10(ds.cur - dot.cur)
                               + digitsValue(d, dot.cur + 1, ds.cur),
                           ds.cur - dot.cur)

\* parseNumber without the test for a digit behind a leading zero.
parseNumberLeadingZeros(d, c) ==
    LET sign == skipByte(d, c, MINUS)
    IN  IF ~isDecimalDigit(d, sign.cur) THEN numberError(sign.cur)
        ELSE parseFraction(d, skipDecimalDigits(d, sign.cur).cur, sign.ok, sign.cur)

parseNumber(d, c) ==
    LET sign == skipByte(d, c, MINUS)
        zero == skipByte(d, sign.cur, 48)
    IN  IF zero.ok
        THEN IF isDecimalDigit(d, zero.cur) THEN numberError(zero.cur)
             ELSE parseFraction(d, zero.cur, sign.ok, sign.cur)
        ELSE IF sign.cur >= Len(d) \/ d[sign.cur + 1] < 49 \/ d[sign.cur + 1] > 57
        THEN numberError(sign.cur)
        ELSE parseFraction(d, skipDecimalDigits(d, sign.cur + 1).cur, sign.ok,
                           sign.cur)

(***************************************************************************)
(* The value reader (reader.go).  A callback is a record                   *)
(*   mode    "object" (ReadObject's), "array" (ReadArray's) or "user"      *)
(*   failAt  the invocation at which a user callback fails (0: never)      *)
(*   calls   the invocations so far: key, value, the cursor at the call    *)
(*   obj, arr  what the callbacks of ReadObject and ReadArray collect      *)
(***************************************************************************)
\* An assignment that keeps the value a key already has.
mapAssignKeepFirst(m, key, val) ==
    [k \in DOMAIN m \cup {key} |-> IF k \in DOMAIN m THEN m[k] ELSE val]

\* m[key] = val
mapAssign(m, key, val) ==
    [k \in DOMAIN m \cup {key} |-> IF k = key THEN val ELSE m[k]]

CallbackErr == [e |-> "callback"]

newCallback(mode, failAt) ==
    [mode |-> mode, failAt |-> failAt, calls |-> << >>, obj |-> EmptyMap,
     arr |-> << >>]

\* callback(key, value) called for the first member of each key only.
invokeOncePerKey(cb, key, val, c) ==
    LET seen == key # << >> /\ \E i \in DOMAIN cb.calls : cb.calls[i].key = key
        cb1 == IF seen THEN cb
               ELSE [cb EXCEPT !.calls = Append(@, [key |-> key, v |-> val, cur |-> c])]
    IN  CASE cb.mode = "object" ->
                [cb |-> [cb1 EXCEPT !.obj = mapAssign(@, key, val)], err |-> NoError]
          [] cb.mode = "array" ->
                [cb |-> [cb1 EXCEPT !.arr = Append(@, val)], err |-> NoError]
          [] OTHER ->
                [cb |-> cb1,
                 err |-> IF ~seen /\ Len(cb1.calls) = cb.failAt THEN CallbackErr
                         ELSE NoError]

\* callback(key, value): the callback afterwards and the error returned.
invoke(cb, key, val, c) ==
    LET cb1 == [cb EXCEPT !.calls = Append(@, [key |-> key, v |-> val, cur |-> c])]
    IN  CASE cb.mode = "object" ->
                [cb |-> [cb1 EXCEPT !.obj = mapAssign(@, key, val)], err |-> NoError]
          [] cb.mode = "array" ->
                [cb |-> [cb1 EXCEPT !.arr = Append(@, val)], err |-> NoError]
          [] OTHER ->
                [cb |-> cb1,
                 err |-> IF Len(cb1.calls) = cb.failAt THEN CallbackErr ELSE NoError]

fail(c, e) == [cur |-> c, val |-> NilValue, err |-> e]

RECURSIVE ReadValue(_, _)
RECURSIVE readObjectLoop(_, _, _)
RECURSIVE readArrayLoop(_, _, _)

\* The loop of case '{' of ReadValue.
readObjectLoop(d, c, m) ==
    With(skipWhitespace(d, c), LAMBDA c1 :
    IF IsEOF(d, c1) THEN fail(c1, ErrUnexpectedEOF)
    ELSE With(parseString(d, c1), LAMBDA key :
    IF key.err # NoError THEN fail(key.cur, key.err)
    ELSE With(skipWhitespace(d, key.cur), LAMBDA c2 :
    IF IsEOF(d, c2) THEN fail(c2, ErrUnexpectedEOF)
    ELSE IF ~skipByte(d, c2, COLON).ok THEN fail(c2, ErrUnexpectedToken)
    ELSE With(ReadValue(d, c2 + 1), LAMBDA val :
    IF val.err # NoError THEN fail(val.cur, val.err)
    ELSE With(mapAssign(m, key.val, val.val), LAMBDA m1 :
         With(skipWhitespace(d, val.cur), LAMBDA c3 :
    IF IsEOF(d, c3) THEN fail(c3, ErrUnexpectedEOF)
    ELSE IF skipByte(d, c3, RBRACE).ok
    THEN [cur |-> c3 + 1, val |-> ObjValue(m1), err |-> NoError]
    ELSE IF ~skipByte(d, c3, COMMA).ok THEN fail(c3, ErrUnexpectedToken)
    ELSE readObjectLoop(d, c3 + 1, m1)))))))

\* The loop of case '[' of ReadValue.
readArrayLoop(d, c, arr) ==
    IF IsEOF(d, c) THEN fail(c, ErrUnexpectedEOF)
    ELSE With(ReadValue(d, c), LAMBDA val :
    IF val.err # NoError THEN fail(val.cur, val.err)
    ELSE With(Append(arr, val.val), LAMBDA arr1 :
         With(skipWhitespace(d, val.cur), LAMBDA c1 :
    IF IsEOF(d, c1) THEN fail(c1, ErrUnexpectedEOF)
    ELSE IF skipByte(d, c1, RBRACKET).ok
    THEN [cur |-> c1 + 1, val |-> ArrValue(arr1), err |-> NoError]
    ELSE IF ~skipByte(d, c1, COMMA).ok THEN fail(c1, ErrUnexpectedToken)
    ELSE With(skipWhitespace(d, c1 + 1), LAMBDA c2 :
             readArrayLoop(d, c2, arr1)))))

literal(d, c, seq, val) ==
    LET s == skipSequence(d, c, seq)
    IN  IF s.ok THEN [cur |-> s.cur, val |-> val, err |-> NoError]
        ELSE fail(c, ErrUnexpectedToken)

ReadValue(d, c0) ==
    With(skipWhitespace(d, c0), LAMBDA c :
    IF IsEOF(d, c) THEN fail(c, ErrUnexpectedEOF)
    ELSE With(peek(d, c), LAMBDA b :
         CASE b = LBRACE ->
                With(skipWhitespace(d, c + 1), LAMBDA c1 :
                    IF skipByte(d, c1, RBRACE).ok
                    THEN [cur |-> c1 + 1, val |-> ObjValue(EmptyMap), err |-> NoError]
                    ELSE readObjectLoop(d, c1, EmptyMap))
           [] b = LBRACKET ->
                With(skipWhitespace(d, c + 1), LAMBDA c1 :
                    IF skipByte(d, c1, RBRACKET).ok
                    THEN [cur |-> c1 + 1, val |-> ArrValue(<< >>), err |-> NoError]
                    ELSE readArrayLoop(d, c1, << >>))
           [] b = QUOTE ->
                With(parseString(d, c), LAMBDA s :
                    [cur |-> s.cur, val |-> StrValue(s.val), err |-> s.err])
           [] b = 116 -> literal(d, c, Str_true, BoolValue(TRUE))
           [] b = 102 -> literal(d, c, Str_false, BoolValue(FALSE))
           [] b = 110 -> literal(d, c, Str_null, NilValue)
           [] b = MINUS \/ (b >= 48 /\ b <= 57) -> parseNumber(d, c)
           [] OTHER -> fail(c, ErrUnexpectedToken)))

\* The loop of ReadObjectCallback, looking at the callback's error only after
\* the separator behind the member.
RECURSIVE objectCallbackLoopDeferred(_, _, _)
objectCallbackLoopDeferred(d, c, cb) ==
    With(parseString(d, skipWhitespace(d, c)), LAMBDA key :
    IF key.err # NoError THEN [cur |-> key.cur, err |-> key.err, cb |-> cb]
    ELSE With(skipWhitespace(d, key.cur), LAMBDA c2 :
    IF ~skipByte(d, c2, COLON).ok
    THEN [cur |-> c2, err |-> ErrUnexpectedToken, cb |-> cb]
    ELSE With(ReadValue(d, skipWhitespace(d, c2 + 1)), LAMBDA val :
    IF val.err # NoError THEN [cur |-> val.cur, err |-> val.err, cb |-> cb]
    ELSE With(invoke(cb, key.val, val.val, val.cur), LAMBDA called :
    With(skipWhitespace(d, val.cur), LAMBDA c3 :
    IF IsEOF(d, c3) THEN [cur |-> c3, err |-> ErrUnexpectedEOF, cb |-> called.cb]
    ELSE IF skipByte(d, c3, COMMA).ok
    THEN IF called.err # NoError
         THEN [cur |-> c3 + 1, err |-> called.err, cb |-> called.cb]
         ELSE objectCallbackLoopDeferred(d, c3 + 1, called.cb)
    ELSE IF called.err # NoError
    THEN [cur |-> c3, err |-> called.err, cb |-> called.cb]
    ELSE IF skipByte(d, c3, RBRACE).ok
    THEN [cur |-> c3 + 1, err |-> NoError, cb |-> called.cb]
    ELSE [cur |-> c3, err |-> ErrUnexpectedToken, cb |-> called.cb])))))

\* The loop of ReadObjectCallback: the cursor, the error, the callback.
RECURSIVE objectCallbackLoop(_, _, _)
objectCallbackLoop(d, c, cb) ==
    With(parseString(d, skipWhitespace(d, c)), LAMBDA key :
    IF key.err # NoError THEN [cur |-> key.cur, err |-> key.err, cb |-> cb]
    ELSE With(skipWhitespace(d, key.cur), LAMBDA c2 :
    IF ~skipByte(d, c2, COLON).ok
    THEN [cur |-> c2, err |-> ErrUnexpectedToken, cb |-> cb]
    ELSE With(ReadValue(d, skipWhitespace(d, c2 + 1)), LAMBDA val :
    IF val.err # NoError THEN [cur |-> val.cur, err |-> val.err, cb |-> cb]
    ELSE With(invoke(cb, key.val, val.val, val.cur), LAMBDA called :
    IF called.err # NoError
    THEN [cur |-> val.cur, err |-> called.err, cb |-> called.cb]
    ELSE With(skipWhitespace(d, val.cur), LAMBDA c3 :
    IF IsEOF(d, c3) THEN [cur |-> c3, err |-> ErrUnexpectedEOF, cb |-> called.cb]
    ELSE IF skipByte(d, c3, COMMA).ok THEN objectCallbackLoop(d, c3 + 1, called.cb)
    ELSE IF skipByte(d, c3, RBRACE).ok
    THEN [cur |-> c3 + 1, err |-> NoError, cb |-> called.cb]
    ELSE [cur |-> c3, err |-> ErrUnexpectedToken, cb |-> called.cb])))))

ReadObjectCallback(d, c, cb) ==
    IF ~skipByte(d, c, LBRACE).ok
    THEN [cur |-> c, err |-> ErrUnexpectedToken, cb |-> cb]
    ELSE With(skipWhitespace(d, c + 1), LAMBDA c1 :
             IF skipByte(d, c1, RBRACE).ok
             THEN [cur |-> c1 + 1, err |-> NoError, cb |-> cb]
             ELSE objectCallbackLoop(d, c1, cb))

ReadObject(d, c) ==
    With(ReadObjectCallback(d, c, newCallback("object", 0)), LAMBDA r :
        IF r.err # NoError THEN fail(r.cur, r.err)
        ELSE [cur |-> r.cur, val |-> ObjValue(r.cb.obj), err |-> NoError])

\* The loop of ReadArrayCallback, taking a ] behind a comma for the end.
RECURSIVE arrayCallbackLoopLenient(_, _, _)
arrayCallbackLoopLenient(d, c, cb) ==
    With(skipWhitespace(d, c), LAMBDA c1 :
    IF IsEOF(d, c1) THEN [cur |-> c1, err |-> ErrUnexpectedEOF, cb |-> cb]
    ELSE IF skipByte(d, c1, RBRACKET).ok THEN [cur |-> c1 + 1, err |-> NoError, cb |-> cb]
    ELSE With(ReadValue(d, c1), LAMBDA val :
    IF val.err # NoError THEN [cur |-> val.cur, err |-> val.err, cb |-> cb]
    ELSE With(invoke(cb, << >>, val.val, val.cur), LAMBDA called :
    IF called.err # NoError
    THEN [cur |-> val.cur, err |-> called.err, cb |-> called.cb]
    ELSE With(skipWhitespace(d, val.cur), LAMBDA c2 :
    IF IsEOF(d, c2) THEN [cur |-> c2, err |-> ErrUnexpectedEOF, cb |-> called.cb]
    ELSE IF skipByte(d, c2, COMMA).ok
    THEN arrayCallbackLoopLenient(d, c2 + 1, called.cb)
    ELSE IF skipByte(d, c2, RBRACKET).ok
    THEN [cur |-> c2 + 1, err |-> NoError, cb |-> called.cb]
    ELSE [cur |-> c2, err |-> ErrUnexpectedToken, cb |-> called.cb]))))

\* The loop of ReadArrayCallback.
RECURSIVE arrayCallbackLoop(_, _, _)
arrayCallbackLoop(d, c, cb) ==
    With(skipWhitespace(d, c), LAMBDA c1 :
    IF IsEOF(d, c1) THEN [cur |-> c1, err |-> ErrUnexpectedEOF, cb |-> cb]
    ELSE With(ReadValue(d, c1), LAMBDA val :
    IF val.err # NoError THEN [cur |-> val.cur, err |-> val.err, cb |-> cb]
    ELSE With(invoke(cb, << >>, val.val, val.cur), LAMBDA called :
    IF called.err # NoError
    THEN [cur |-> val.cur, err |-> called.err, cb |-> called.cb]
    ELSE With(skipWhitespace(d, val.cur), LAMBDA c2 :
    IF IsEOF(d, c2) THEN [cur |-> c2, err |-> ErrUnexpectedEOF, cb |-> called.cb]
    ELSE IF skipByte(d, c2, COMMA).ok THEN arrayCallbackLoop(d, c2 + 1, called.cb)
    ELSE IF skipByte(d, c2, RBRACKET).ok
    THEN [cur |-> c2 + 1, err |-> NoError, cb |-> called.cb]
    ELSE [cur |-> c2, err |-> ErrUnexpectedToken, cb |-> called.cb]))))

ReadArrayCallback(d, c, cb) ==
    IF ~skipByte(d, c, LBRACKET).ok
    THEN [cur |-> c, err |-> ErrUnexpectedToken, cb |-> cb]
    ELSE With(skipWhitespace(d, c + 1), LAMBDA c1 :
             IF skipByte(d, c1, RBRACKET).ok
             THEN [cur |-> c1 + 1, err |-> NoError, cb |-> cb]
             ELSE arrayCallbackLoop(d, c1, cb))

ReadArray(d, c) ==
    With(ReadArrayCallback(d, c, newCallback("array", 0)), LAMBDA r :
        IF r.err # NoError THEN fail(r.cur, r.err)
        ELSE [cur |-> r.cur, val |-> ArrValue(r.cb.arr), err |-> NoError])

\* Finalize: the cursor behind the whitespace, and the error.
Finalize(d, c) ==
    LET c1 == skipWhitespace(d, c)
    IN  [cur |-> c1, err |-> IF ~IsEOF(d, c1) THEN ErrUnexpectedToken ELSE NoError]

\* NewScanner(data, flags): the cursor it starts with.
NewScanner(d, fl) ==
    LET c1 == IF ScannerFlagDoNotSkipBOM \notin fl THEN SkipBOM(d, 0).cur ELSE 0
    IN  IF ScannerFlagDoNotSkipInitialWhitespace \notin fl
        THEN skipWhitespace(d, c1) ELSE c1


(***************************************************************************)
(* Scanner sessions: a scanner is made over an input, a value is read,     *)
(* Finalize is called.  In these sessions                                  *)
(*   op.v    is where the input came from: the Go value it was marshalled  *)
(*           from, or the parts the text was put together from             *)
(*   op.pre  is res before the call, mark the cursor before the call       *)
(*   res     is the value and error of the last read, and in fin the error *)
(*           of Finalize                                                   *)
(***************************************************************************)
MaxTrail == 2
MaxMembers == 3
MaxStrLen == 2
MaxElems == 2
MaxFailAt == 2

BOM == <<239, 187, 191>>

SeqsUpTo(S, n) == UNION {[1..k -> S] : k \in 0..n}

\* One value, behind nothing or a BOM and a space, before up to MaxTrail bytes.
ValueHeads ==
    {<<49>>, <<QUOTE, 97, QUOTE>>, <<LBRACKET, RBRACKET>>, Str_null,
     <<LBRACE, RBRACE>>, Str_true}
TrailBytes == {32, 9, 10, 13, 12, 0, 11, 49}
Leads == {<< >>, BOM \o <<32>>}

ValueInputs ==
    {[kind |-> "value", members |-> << >>, text |-> lead \o head \o trail,
      trail |-> trail, lead |-> lead] :
        lead \in Leads, head \in ValueHeads, trail \in SeqsUpTo(TrailBytes, MaxTrail)}

\* One object of up to MaxMembers members "key":n, with or without spaces.
MemberSeqs == SeqsUpTo([key : {KeyA, KeyB}, n : 1..2], MaxMembers)

RECURSIVE membersText(_, _, _)
membersText(ms, i, spaced) ==
    IF i > Len(ms) THEN << >>
    ELSE (IF i > 1 THEN <<COMMA>> \o (IF spaced THEN <<32>> ELSE << >>) ELSE << >>)
         \o <<QUOTE>> \o ms[i].key \o <<QUOTE>>
         \o (IF spaced THEN <<32, COLON, 9>> ELSE <<COLON>>)
         \o <<48 + ms[i].n>> \o membersText(ms, i + 1, spaced)

ObjectInputs ==
    {[kind |-> "object", members |-> ms, spaced |-> spaced,
      text |-> <<LBRACE>> \o membersText(ms, 1, spaced) \o <<RBRACE>>,
      trail |-> << >>, lead |-> << >>] :
        ms \in MemberSeqs, spaced \in BOOLEAN}

\* One array of up to MaxElems elements, and the arrays and objects whose last
\* element or member is followed by a comma (comma), with or without spaces.
ElemTexts ==
    {<<49>>, <<QUOTE, 97, QUOTE>>, <<LBRACKET, RBRACKET>>,
     <<LBRACE, QUOTE, 97, QUOTE, COLON, 50, RBRACE>>}

RECURSIVE elemsText(_, _, _)
elemsText(es, i, spaced) ==
    IF i > Len(es) THEN << >>
    ELSE (IF i > 1 THEN <<COMMA>> \o (IF spaced THEN <<32>> ELSE << >>) ELSE << >>)
         \o es[i] \o (IF spaced THEN <<10>> ELSE << >>)
         \o elemsText(es, i + 1, spaced)

commaText(comma, spaced) ==
    IF comma THEN <<COMMA>> \o (IF spaced THEN <<32>> ELSE << >>) ELSE << >>

ArrayInputs ==
    {[kind |-> "array", members |-> << >>, elems |-> es, comma |-> comma,
      spaced |-> spaced,
      text |-> <<LBRACKET>> \o elemsText(es, 1, spaced) \o commaText(comma, spaced)
               \o <<RBRACKET>>,
      trail |-> << >>, lead |-> << >>] :
        es \in SeqsUpTo(ElemTexts, MaxElems), comma \in BOOLEAN, spaced \in BOOLEAN}

ObjectCommaInputs ==
    {[kind |-> "objectComma", members |-> ms, comma |-> TRUE, spaced |-> spaced,
      text |-> <<LBRACE>> \o membersText(ms, 1, spaced) \o commaText(TRUE, spaced)
               \o <<RBRACE>>,
      trail |-> << >>, lead |-> << >>] :
        ms \in SeqsUpTo([key : {KeyA, KeyB}, n : 1..2], MaxElems), spaced \in BOOLEAN}

\* A trailing comma in a container inside a container.
NestedCommaInputs ==
    {[kind |-> "nestedComma", members |-> << >>, comma |-> TRUE, text |-> text,
      trail |-> << >>, lead |-> << >>] :
        text \in {<<LBRACKET, LBRACKET, 49, COMMA, RBRACKET, RBRACKET>>,
                  <<LBRACKET, LBRACE, QUOTE, 97, QUOTE, COLON, 49, COMMA, RBRACE,
                    RBRACKET>>,
                  <<LBRACE, QUOTE, 97, QUOTE, COLON, LBRACKET, 49, COMMA, RBRACKET,
                    RBRACE>>,
                  <<LBRACE, QUOTE, 97, QUOTE, COLON, LBRACE, QUOTE, 98, QUOTE, COLON,
                    49, COMMA, RBRACE, RBRACE>>}}

\* What ReadValue dispatches on: one token, whole or cut short, behind the bytes
\* NewScanner may skip: whitespace (w0), a BOM or the start of one (bom),
\* whitespace (w1).
DispatchTokens ==
    {<< >>, Str_true, Str_false, Str_null,
     <<116, 114, 117>>, <<102, 97, 108, 115>>, <<110, 117, 108>>,
     <<116, 114, 117, 120>>, <<116>>, <<110, 117, 108, 76>>,
     <<84, 114, 117, 101>>, <<105, 110, 118, 97, 108, 105, 100>>,
     <<LBRACE, RBRACE>>, <<LBRACKET, RBRACKET>>, <<LBRACE>>, <<LBRACKET>>,
     <<RBRACE>>, <<RBRACKET>>, <<COMMA>>, <<COLON>>,
     <<QUOTE, 97, QUOTE>>, <<QUOTE, 97>>, <<39, 97, 39>>,
     <<48>>, <<MINUS, 49>>, <<57, 46, 53>>, <<48, 49>>, <<MINUS>>, <<43, 49>>,
     <<46, 53>>, <<49, 101, 57, 57, 57>>, <<0>>, <<12, 49>>}
LeadSpaces == {<< >>, <<32>>, <<9, 10, 13>>}
LeadMarks == {<< >>, BOM, <<239, 187>>}

DispatchInputs ==
    {[kind |-> "dispatch", members |-> << >>, w0 |-> w0, bom |-> bom, w1 |-> w1,
      tok |-> tok, text |-> w0 \o bom \o w1 \o tok, trail |-> << >>,
      lead |-> w0 \o bom \o w1] :
        w0 \in {<< >>, <<32>>}, bom \in LeadMarks, w1 \in LeadSpaces,
        tok \in DispatchTokens}

\* One complete value (head) and the one or two bytes that follow it.
FollowHeads ==
    {<<48>>, <<MINUS, 48>>, <<49, 50>>, <<49, 46, 53>>, <<49, 101, 48>>,
     <<50, 69, MINUS, 49>>, Str_true, Str_false, Str_null, <<QUOTE, 97, QUOTE>>,
     <<LBRACKET, RBRACKET>>, <<LBRACE, RBRACE>>, <<LBRACKET, 49, RBRACKET>>,
     <<LBRACE, QUOTE, 97, QUOTE, COLON, 49, RBRACE>>}
FollowBytes ==
    {46, 101, 69, 48, 49, 43, MINUS, COMMA, RBRACKET, RBRACE, COLON, 120, QUOTE, 32,
     10, 0, LBRACKET, 116}
Follows ==
    {<< >>} \cup {<<b>> : b \in FollowBytes}
    \cup {<<b, c>> : b \in FollowBytes, c \in {49, 32}}

FollowInputs ==
    {[kind |-> "follow", members |-> << >>, head |-> head, follow |-> follow,
      text |-> head \o follow, trail |-> follow, lead |-> << >>] :
        head \in FollowHeads, follow \in Follows}

\* Containers cut short: every prefix of a few objects and arrays.  ends are
\* the offsets behind the values of the container's own members or elements.
WholeTexts ==
    {[text |-> <<LBRACE, QUOTE, 97, QUOTE, COLON, 49, COMMA, QUOTE, 98, QUOTE, COLON,
                 LBRACKET, 50, COMMA, LBRACE, RBRACE, RBRACKET, RBRACE>>,
      ends |-> <<6, 17>>],
     [text |-> <<LBRACE, 32, QUOTE, 97, QUOTE, 32, COLON, 32, 49, 32, COMMA, 32,
                 QUOTE, 97, QUOTE, 32, COLON, 32>> \o Str_null \o <<32, RBRACE, 32>>,
      ends |-> <<9, 22>>],
     [text |-> <<LBRACKET, 49, COMMA, LBRACKET, 50, RBRACKET, COMMA, LBRACE, QUOTE,
                 97, QUOTE, COLON, 51, RBRACE, RBRACKET>>,
      ends |-> <<2, 6, 14>>],
     [text |-> <<LBRACKET, 32, 49, 32, COMMA, 32, QUOTE, 97, QUOTE, 32, RBRACKET,
                 32>>,
      ends |-> <<3, 9>>]}

CutInputs ==
    UNION {{[kind |-> "cut", members |-> << >>, whole |-> w.text, ends |-> w.ends,
             text |-> SubSeq(w.text, 1, k), trail |-> << >>, lead |-> << >>] :
                k \in 1..Len(w.text)} : w \in WholeTexts}

ScanInputs ==
    ValueInputs \cup ObjectInputs \cup ArrayInputs \cup ObjectCommaInputs
    \cup NestedCommaInputs \cup DispatchInputs \cup FollowInputs \cup CutInputs

ScannerFlags == {ScannerFlagDoNotSkipBOM, ScannerFlagDoNotSkipInitialWhitespace}

InitScan ==
    /\ dec = newDecorator(DefaultPrecision, -1, 0)
    /\ aw = NoWriter
    /\ op = [name |-> "init", v |-> Nil, key |-> << >>, pre |-> NoResult]
    /\ ret = NoReturn
    /\ ScannerIdle

\* s := NewScanner(data, flags...)
NewScannerCall ==
    /\ op.name = "init"
    /\ \E input \in ScanInputs, fl \in SUBSET ScannerFlags :
          /\ (input.kind # "dispatch" /\ input.lead = << >>) => fl = {}
          /\ data' = input.text
          /\ flags' = fl
          /\ cur' = NewScanner(input.text, fl)
          /\ op' = [name |-> "NewScanner", v |-> input, key |-> << >>, pre |-> res]
    /\ mark' = 0
    /\ UNCHANGED <<dec, aw, ret, res>>

\* v, err := ReadValue(s)
ReadValueCall ==
    /\ op.name = "NewScanner"
    /\ LET r == ReadValue(data, cur)
       IN  /\ cur' = r.cur
           /\ res' = [NoResult EXCEPT !.val = r.val, !.err = r.err]
    /\ op' = [op EXCEPT !.name = "ReadValue", !.pre = res]
    /\ mark' = cur
    /\ UNCHANGED <<dec, aw, ret, data, flags>>

\* m, err := ReadObject(s)
ReadObjectCall ==
    /\ op.name = "NewScanner"
    /\ LET r == ReadObject(data, cur)
       IN  /\ cur' = r.cur
           /\ res' = [NoResult EXCEPT !.val = r.val, !.err = r.err]
    /\ op' = [op EXCEPT !.name = "ReadObject", !.pre = res]
    /\ mark' = cur
    /\ UNCHANGED <<dec, aw, ret, data, flags>>

\* arr, err := ReadArray(s)
ReadArrayCall ==
    /\ op.name = "NewScanner"
    /\ LET r == ReadArray(data, cur)
       IN  /\ cur' = r.cur
           /\ res' = [NoResult EXCEPT !.val = r.val, !.err = r.err]
    /\ op' = [op EXCEPT !.name = "ReadArray", !.pre = res]
    /\ mark' = cur
    /\ UNCHANGED <<dec, aw, ret, data, flags>>

\* err := ReadObjectCallback(s, callback), the callback failing at its
\* failAt-th invocation (never, for 0).
ReadObjectCallbackCall ==
    /\ op.name = "NewScanner"
    /\ \E failAt \in 0..MaxFailAt :
          LET r == ReadObjectCallback(data, cur, newCallback("user", failAt))
          IN  /\ cur' = r.cur
              /\ res' = [NoResult EXCEPT !.err = r.err, !.cb = r.cb]
    /\ op' = [op EXCEPT !.name = "ReadObjectCallback", !.pre = res]
    /\ mark' = cur
    /\ UNCHANGED <<dec, aw, ret, data, flags>>

\* err := ReadArrayCallback(s, callback)
ReadArrayCallbackCall ==
    /\ op.name = "NewScanner"
    /\ \E failAt \in 0..MaxFailAt :
          LET r == ReadArrayCallback(data, cur, newCallback("user", failAt))
          IN  /\ cur' = r.cur
              /\ res' = [NoResult EXCEPT !.err = r.err, !.cb = r.cb]
    /\ op' = [op EXCEPT !.name = "ReadArrayCallback", !.pre = res]
    /\ mark' = cur
    /\ UNCHANGED <<dec, aw, ret, data, flags>>

Readers ==
    {"ReadValue", "ReadObject", "ReadArray", "ReadObjectCallback",
     "ReadArrayCallback"}

\* err := s.Finalize()
FinalizeCall ==
    /\ op.name \in {"NewScanner"} \cup Readers
    /\ LET f == Finalize(data, cur)
       IN  /\ cur' = f.cur
           /\ res' = [res EXCEPT !.fin = f.err]
    /\ op' = [op EXCEPT !.name = "Finalize", !.pre = res]
    /\ mark' = cur
    /\ UNCHANGED <<dec, aw, ret, data, flags>>

NextScan ==
    \/ NewScannerCall
    \/ ReadValueCall
    \/ ReadObjectCall
    \/ ReadArrayCall
    \/ ReadObjectCallbackCall
    \/ ReadArrayCallbackCall
    \/ FinalizeCall

SpecScan == InitScan /\ [][NextScan]_vars

(***************************************************************************)
(* Round trips: a value of the kinds ReadValue returns is marshalled with  *)
(* the default options, and the text is read back.                         *)
(***************************************************************************)
StrBytes == {0, 8, 31, 34, 47, 92, 97, 117, 127, 195, 237}

RoundStrings ==
    {StrV(s) : s \in SeqsUpTo(StrBytes, MaxStrLen)}
    \cup {StrV(<<195, 169, 226, 130, 172>>), StrV(<<240, 159, 152, 128>>),
          StrV(<<226, 128, 168>>), StrV(<<BACKSLASH, 117, 48, 48, 52, 49>>),
          StrV(<<237, 160, 128>>), StrV(<<13, 10, 9, 12, 26, 15>>)}

RoundNumbers ==
    {IntV(0), IntV(-12), IntV(1234567), IntV(1200),
     FloatV(FALSE, 0, 0), FloatV(TRUE, 0, 0), FloatV(FALSE, 314, -2),
     FloatV(TRUE, 5, -1), FloatV(FALSE, 123456, 0), FloatV(FALSE, 1234567, 0),
     FloatV(FALSE, 123456, -2), FloatV(FALSE, 1, 21), FloatV(TRUE, 1, -7),
     FloatV(FALSE, 25, 4), FloatV(FALSE, 1, 6), FloatV(FALSE, 17, 307),
     FloatV(FALSE, 1000001, -6), NaN, Inf(FALSE), Inf(TRUE)}

RoundElems ==
    {Nil, BoolV(FALSE), IntV(-12), FloatV(FALSE, 314, -2), StrV(<<QUOTE, 10>>),
     SliceV(<< >>), MapV(<<Pair(KeyB, IntV(1)), Pair(KeyA, Nil)>>),
     FloatV(FALSE, 1234567, 0)}

RoundMemberValues ==
    {BoolV(TRUE), FloatV(TRUE, 5, -1), SliceV(<<Nil, StrV(KeyA)>>), MapV(<< >>)}

RoundKeys == {KeyA, KeyB, <<QUOTE>>}

RoundSlices == {SliceV(es) : es \in SeqsUpTo(RoundElems, MaxElems)}

RoundMaps ==
    {MapV(pairs) : pairs \in
        {ps \in SeqsUpTo([k : RoundKeys, v : RoundMemberValues], MaxElems) :
            \A i, j \in DOMAIN ps : i # j => ps[i].k # ps[j].k}}

RoundValues ==
    {Nil, BoolV(TRUE), BoolV(FALSE)} \cup RoundNumbers \cup RoundStrings
    \cup RoundSlices \cup RoundMaps

\* s, err := Marshal(v)
MarshalRound ==
    /\ op.name = "init"
    /\ \E v \in RoundValues :
          /\ ret' = Marshal(v, << >>)
          /\ op' = [name |-> "Marshal", v |-> v, key |-> << >>, pre |-> res]
    /\ UNCHANGED <<dec, aw, data, cur, flags, res, mark>>

\* sc := NewScanner([]byte(s)), for the s Marshal returned without an error.
ScanOutput ==
    /\ op.name = "Marshal"
    /\ ret.err = NoError
    /\ data' = ret.s
    /\ flags' = {}
    /\ cur' = NewScanner(ret.s, {})
    /\ op' = [op EXCEPT !.name = "NewScanner", !.pre = res]
    /\ mark' = 0
    /\ UNCHANGED <<dec, aw, ret, res>>

NextRound ==
    \/ MarshalRound
    \/ ScanOutput
    \/ ReadValueCall
    \/ FinalizeCall

SpecRound == InitScan /\ [][NextRound]_vars


(***************************************************************************)
(* Round trips and the reader's contract.                                  *)
(***************************************************************************)
RECURSIVE StructEq(_, _)
\* The Go value v and the decoded value x are structurally equivalent:
\* numbers compared as float64, the order of object keys ignored.
StructEq(v, x) ==
    CASE v.k = "nil" -> x = NilValue
      [] v.k = "bool" -> x = BoolValue(v.b)
      [] v.k = "int" ->
            LET n == normalize(IF v.n < 0 THEN 0 - v.n ELSE v.n, 0)
            IN  x.t = "num" /\ x.m = n.m /\ x.e = n.e /\ (n.m # 0 => x.neg = (v.n < 0))
      [] v.k = "float" ->
            v.cls = "fin" /\ x.t = "num" /\ x.m = v.m /\ x.e = v.e
            /\ (v.m # 0 => x.neg = v.neg)
      [] v.k = "string" -> x = StrValue(v.s)
      [] v.k = "slice" ->
            x.t = "arr" /\ Len(x.a) = Len(v.es)
            /\ \A i \in DOMAIN v.es : StructEq(v.es[i], x.a[i])
      [] v.k = "map" ->
            x.t = "obj" /\ DOMAIN x.m = {v.pairs[i].k : i \in DOMAIN v.pairs}
            /\ \A i \in DOMAIN v.pairs : StructEq(v.pairs[i].v, x.m[v.pairs[i].k])
      [] OTHER -> FALSE

RECURSIVE Plain(_)
\* v is built only from null, booleans, numbers, strings, arrays and
\* string-keyed objects.
Plain(v) ==
    CASE v.k \in {"nil", "bool", "string", "int", "float"} -> TRUE
      [] v.k = "slice" -> \A i \in DOMAIN v.es : Plain(v.es[i])
      [] v.k = "map" ->
            v.keyKind = "string" /\ \A i \in DOMAIN v.pairs : Plain(v.pairs[i].v)
      [] OTHER -> FALSE

RECURSIVE Numbers(_)
\* The numbers in v.
Numbers(v) ==
    CASE v.k \in {"int", "float"} -> {v}
      [] v.k = "slice" -> UNION {Numbers(v.es[i]) : i \in DOMAIN v.es}
      [] v.k = "map" -> UNION {Numbers(v.pairs[i].v) : i \in DOMAIN v.pairs}
      [] OTHER -> {}

Finite(n) == n.k = "int" \/ n.cls = "fin"

\* An integer of an integer type, or a float that is the float64 nearest to a
\* decimal of at most DefaultPrecision significant digits.
WithinPrecision(n) ==
    n.k = "int" \/ (n.cls = "fin" /\ NumDigits(n.m) <= DefaultPrecision)

\* Marshal, NewScanner, ReadValue and Finalize succeed on the values whose
\* numbers satisfy P, and the value read is equivalent to the one marshalled.
RoundTrip(P(_)) ==
    (Plain(op.v) /\ \A n \in Numbers(op.v) : P(n)) =>
        /\ op.name = "Marshal" => ret.err = NoError
        /\ op.name = "ReadValue" => res.err = NoError /\ StructEq(op.v, res.val)
        /\ (op.name = "Finalize" /\ op.pre.val.t # "none") =>
              res.err = NoError /\ res.fin = NoError /\ StructEq(op.v, res.val)

\* C7 as stated: every value built only from null, booleans, (finite) numbers,
\* strings, arrays and string-keyed objects is marshalled with the default
\* options and read back by NewScanner, ReadValue and Finalize without an error
\* as a structurally equivalent value.
C7_RoundTripAnyNumber == RoundTrip(Finite)

\* C7, amended: the round trip succeeds and reproduces a structurally
\* equivalent value when every number is an integer of an integer type or a
\* float of at most six significant decimal digits, the default precision.
C7_RoundTripWithinPrecision == RoundTrip(WithinPrecision)

C7_Witness ==
    /\ op.name = "Finalize"
    /\ op.v = MapV(<<Pair(KeyB, FloatV(TRUE, 5, -1)),
                     Pair(KeyA, SliceV(<<Nil, StrV(KeyA)>>))>>)
    /\ res.fin = NoError
    /\ res.val = ObjValue((KeyA :> ArrValue(<<NilValue, StrValue(KeyA)>>))
                          @@ (KeyB :> NumValue(TRUE, 5, -1)))

\* s holds the three bytes UTF-8 would use for a surrogate half.
HasSurrogate(s) ==
    \E i \in 1..Len(s) - 2 :
        s[i] = 237 /\ s[i + 1] >= 160 /\ s[i + 1] <= 191
        /\ s[i + 2] >= 128 /\ s[i + 2] <= 191

\* C8: for every string s free of lone surrogate halves, control bytes, quotes,
\* backslashes and multi-byte UTF-8 included, Marshal(s) succeeds and reading
\* its output with ReadValue (parseString) succeeds and returns exactly s.
C8_StringRoundTrip ==
    (op.v.k = "string" /\ ~HasSurrogate(op.v.s)) =>
        /\ op.name = "Marshal" => ret.err = NoError
        /\ op.name = "ReadValue" =>
              res.err = NoError /\ res.val = StrValue(op.v.s) /\ cur = Len(data)

C8_Witness ==
    /\ op.name = "ReadValue"
    /\ op.v = StrV(<<13, 10, 9, 12, 26, 15>>)
    /\ data = <<QUOTE, BACKSLASH, 114, BACKSLASH, 110, BACKSLASH, 116, BACKSLASH, 102,
                BACKSLASH, 117, 48, 48, 49, 97, BACKSLASH, 117, 48, 48, 48, 102,
                QUOTE>>
    /\ res.val = StrValue(<<13, 10, 9, 12, 26, 15>>)

\* C9: after a value has been read, Finalize returns nil if and only if every
\* remaining byte is a space, a tab, a CR or an LF; otherwise it returns the
\* unexpected-token error.
C9_FinalizeWhitespaceOnly ==
    (op.name = "Finalize" /\ op.pre.val.t # "none" /\ op.pre.err = NoError) =>
        LET rest == {data[i] : i \in mark + 1..Len(data)}
        IN  /\ res.fin = NoError <=> rest \subseteq {32, 9, 13, 10}
            /\ res.fin # NoError => res.fin = ErrUnexpectedToken

C9_Witness ==
    /\ op.name = "Finalize"
    /\ op.pre.val = NumValue(FALSE, 1, 0) /\ op.pre.err = NoError
    /\ SubSeq(data, mark + 1, Len(data)) = <<32, 12>>
    /\ res.fin = ErrUnexpectedToken

\* The last member of ms with the key.
LastMember(ms, key) ==
    ms[CHOOSE i \in DOMAIN ms :
          ms[i].key = key /\ \A j \in DOMAIN ms : j > i => ms[j].key # key]

\* C10: ReadValue and ReadObject decode an object, repeated keys included, to a
\* mapping whose key set is the set of distinct keys of the input, each key
\* bound to the value of its last occurrence in input order.
C10_DuplicateKeyLastWins ==
    (op.name \in {"ReadValue", "ReadObject"} /\ op.v.kind = "object") =>
        LET ms == op.v.members
        IN  /\ res.err = NoError
            /\ res.val.t = "obj"
            /\ DOMAIN res.val.m = {ms[i].key : i \in DOMAIN ms}
            /\ \A key \in DOMAIN res.val.m :
                  res.val.m[key] = NumValue(FALSE, LastMember(ms, key).n, 0)

C10_Witness ==
    /\ op.name = "ReadObject"
    /\ data = <<LBRACE, QUOTE, 97, QUOTE, COLON, 49, COMMA, QUOTE, 98, QUOTE, COLON,
                49, COMMA, QUOTE, 97, QUOTE, COLON, 50, RBRACE>>
    /\ res.val = ObjValue((KeyA :> NumValue(FALSE, 2, 0))
                          @@ (KeyB :> NumValue(FALSE, 1, 0)))


\* The input is an array or object whose last element or member is followed by
\* a comma and the closing bracket.
TrailingComma(input) ==
    /\ input.kind \in {"array", "objectComma", "nestedComma"}
    /\ input.comma
    /\ input.kind = "array" => input.elems # << >>
    /\ input.kind = "objectComma" => input.members # << >>

\* C11: on an array or object whose last element or member is followed by a
\* comma and the closing bracket, ReadValue, ReadArray, ReadObject and the
\* callback readers (their callback not failing first) return the
\* unexpected-token error, and the three that return a value return nil.
C11_TrailingCommaRejected ==
    (op.name \in Readers /\ TrailingComma(op.v) /\ res.err # CallbackErr) =>
        /\ res.err = ErrUnexpectedToken
        /\ op.name \in {"ReadValue", "ReadArray", "ReadObject"} => res.val = NilValue

C11_Witness ==
    /\ op.name = "ReadArrayCallback"
    /\ data = <<LBRACKET, 49, COMMA, RBRACKET>>
    /\ Len(res.cb.calls) = 1
    /\ res.err = ErrUnexpectedToken


(***************************************************************************)
(* The scanner's parsers called on their own: a scanner is made over the   *)
(* text with both skips switched off, and parseNumber or parseString is    *)
(* called at offset 0.  op.v is what the text was put together from.       *)
(***************************************************************************)
MaxNumLen == 4

NumBytes == {MINUS, 48, 49, 46, 101, 69, 43}

NumberTexts ==
    {[kind |-> "number", text |-> s] : s \in SeqsUpTo(NumBytes, MaxNumLen)}
    \cup {[kind |-> "number", text |-> s] : s \in
            {<<MINUS, 49, 48, 46, 48, 53, 101, 43, 49, 50>>,
             <<50, 46, 53, 69, MINUS, 51, 44>>,
             <<57, 48, 55, 93>>, <<49, 32>>, <<48, 120>>, <<MINUS, 97>>}}

\* Literals of the grammar beyond the largest float64 (1.7976931348623157e308),
\* below half the smallest (4.9e-324), and finite ones next to the largest.
\* The text is sign, mantissa, e, exponent.
Literal(neg, mant, ex) ==
    (IF neg THEN <<MINUS>> ELSE << >>) \o mant \o <<101>> \o ex

OverflowTexts ==
    {[kind |-> "over", text |-> Literal(neg, mant, ex)] :
        neg \in BOOLEAN,
        mant \in {<<49>>, <<49, 46, 56>>, <<49, 46, 55, 57, 55, 54, 57, 51, 49, 52>>,
                  <<57, 57>>},
        ex \in {<<51, 48, 56>>, <<43, 51, 48, 57>>, <<57, 57, 57>>}}
    \ {[kind |-> "over", text |-> Literal(neg, <<49>>, <<51, 48, 56>>)] :
          neg \in BOOLEAN}

UnderflowTexts ==
    {[kind |-> "under", text |-> Literal(neg, mant, ex)] :
        neg \in BOOLEAN,
        mant \in {<<49>>, <<50, 46, 52>>, <<48, 46, 48, 57>>},
        ex \in {<<MINUS, 57, 57, 57>>, <<MINUS, 52, 48, 48>>, <<MINUS, 51, 50, 53>>}}

LargeTexts ==
    {[kind |-> "large", text |-> Literal(neg, mant, ex)] :
        neg \in BOOLEAN,
        mant \in {<<49>>, <<49, 46, 55>>, <<49, 46, 55, 57, 55, 54, 57, 51, 49, 51>>,
                  <<48, 46, 57, 57>>},
        ex \in {<<51, 48, 56>>, <<51, 48, 55>>}}

\* String literals: an opening quote, up to MaxTokens tokens, an end.  A token
\* is its text, the bytes it stands for, and the error it is to give:
\* characters, the escapes of JSON, \u escapes of non-surrogate code units,
\* other escapes, raw control bytes, \u not followed by four hex digits.
MaxTokens == 2

Token(text, out, err) == [text |-> text, out |-> out, err |-> err]
Esc(letter) == <<BACKSLASH, letter>>
EscU(h) == <<BACKSLASH, 117>> \o h

GoodTokens ==
    {Token(<<97>>, <<97>>, NoError), Token(<<47>>, <<47>>, NoError),
     Token(<<195, 169>>, <<195, 169>>, NoError), Token(<<127>>, <<127>>, NoError),
     Token(Esc(QUOTE), <<QUOTE>>, NoError),
     Token(Esc(BACKSLASH), <<BACKSLASH>>, NoError),
     Token(Esc(47), <<47>>, NoError), Token(Esc(98), <<8>>, NoError),
     Token(Esc(102), <<12>>, NoError), Token(Esc(110), <<10>>, NoError),
     Token(Esc(114), <<13>>, NoError), Token(Esc(116), <<9>>, NoError),
     Token(EscU(<<48, 48, 52, 49>>), <<65>>, NoError),
     Token(EscU(<<48, 48, 69, 57>>), <<195, 169>>, NoError),
     Token(EscU(<<50, 48, 97, 99>>), <<226, 130, 172>>, NoError),
     Token(EscU(<<48, 48, 48, 48>>), <<0>>, NoError)}

BadTokens ==
    {Token(Esc(120), << >>, ErrInvalidString), Token(Esc(97), << >>, ErrInvalidString),
     Token(Esc(48), << >>, ErrInvalidString), Token(Esc(39), << >>, ErrInvalidString),
     Token(Esc(85), << >>, ErrInvalidString),
     Token(<<31>>, << >>, ErrInvalidString), Token(<<10>>, << >>, ErrInvalidString),
     Token(<<0>>, << >>, ErrInvalidString), Token(<<9>>, << >>, ErrInvalidString),
     Token(EscU(<<48, 48, 71, 49>>), << >>, ErrInvalidUnicodeEscape),
     Token(EscU(<<43, 48, 52, 49>>), << >>, ErrInvalidUnicodeEscape),
     Token(EscU(<<48, 32, 52, 49>>), << >>, ErrInvalidUnicodeEscape),
     Token(EscU(<<117, 48, 48, 52>>), << >>, ErrInvalidUnicodeEscape)}

\* The ends: the closing quote (and more input), the end of input, a
\* backslash at the end of input, a \u with fewer than four bytes behind it.
Ends ==
    {Token(<<QUOTE>>, << >>, NoError), Token(<<QUOTE, 97, QUOTE>>, << >>, NoError),
     Token(<< >>, << >>, ErrInvalidString),
     Token(<<BACKSLASH>>, << >>, ErrInvalidString),
     Token(EscU(<<48, 48>>), << >>, ErrInvalidUnicodeEscape),
     Token(EscU(<<48, 48, QUOTE>>), << >>, ErrInvalidUnicodeEscape),
     Token(EscU(<< >>), << >>, ErrInvalidUnicodeEscape)}

RECURSIVE tokensText(_)
tokensText(ts) == IF ts = << >> THEN << >> ELSE ts[1].text \o tokensText(Tail(ts))

StringTexts ==
    {[kind |-> "string", tokens |-> ts, end |-> end,
      text |-> <<QUOTE>> \o tokensText(ts) \o end.text] :
        ts \in SeqsUpTo(GoodTokens \cup BadTokens, MaxTokens), end \in Ends}

\* String literals of up to MaxUnits UTF-16 code units, each written as a \u
\* escape (in upper or lower case hex) or, for the letter a, as itself.
MaxUnits == 2

HexDigit(n, lower) ==
    IF n < 10 THEN 48 + n ELSE (IF lower THEN 87 ELSE 55) + n

HexText(u, lower) ==
    <<HexDigit(u \div 4096, lower), HexDigit((u \div 256) % 16, lower),
      HexDigit((u \div 16) % 16, lower), HexDigit(u % 16, lower)>>

\* D834 DD1E, D801 DC37, the lowest and highest halves, and BMP characters.
Units == {97, 4660, 55348, 56606, 55297, 56375, 55296, 56319, 56320, 57343}

RECURSIVE unitsText(_, _, _)
unitsText(us, raw, lower) ==
    IF us = << >> THEN << >>
    ELSE (IF us[1] = 97 /\ raw THEN <<97>> ELSE EscU(HexText(us[1], lower)))
         \o unitsText(Tail(us), raw, lower)

UnitTexts ==
    {[kind |-> "units", units |-> us,
      text |-> <<QUOTE>> \o unitsText(us, raw, lower) \o <<QUOTE>>] :
        us \in SeqsUpTo(Units, MaxUnits) \ {<< >>}, raw \in BOOLEAN,
        lower \in BOOLEAN}

LexInputs ==
    NumberTexts \cup OverflowTexts \cup UnderflowTexts \cup LargeTexts
    \cup StringTexts \cup UnitTexts

InitLex ==
    /\ dec = newDecorator(DefaultPrecision, -1, 0)
    /\ aw = NoWriter
    /\ ret = NoReturn
    /\ \E input \in LexInputs :
          /\ data = input.text
          /\ op = [name |-> "init", v |-> input, key |-> << >>, pre |-> NoResult]
    /\ flags = ScannerFlags
    /\ cur = NewScanner(data, flags)
    /\ res = NoResult
    /\ mark = 0

\* f, err := s.parseNumber()
ParseNumberCall ==
    /\ op.name = "init"
    /\ LET r == parseNumber(data, cur)
       IN  /\ cur' = r.cur
           /\ res' = [NoResult EXCEPT !.val = r.val, !.err = r.err]
    /\ op' = [op EXCEPT !.name = "parseNumber", !.pre = res]
    /\ mark' = cur
    /\ UNCHANGED <<dec, aw, ret, data, flags>>

\* str, err := s.parseString()
ParseStringCall ==
    /\ op.name = "init"
    /\ LET r == parseString(data, cur)
       IN  /\ cur' = r.cur
           /\ res' = [NoResult EXCEPT !.val = StrValue(r.val), !.err = r.err]
    /\ op' = [op EXCEPT !.name = "parseString", !.pre = res]
    /\ mark' = cur
    /\ UNCHANGED <<dec, aw, ret, data, flags>>

NextLex ==
    \/ ParseNumberCall
    \/ ParseStringCall

SpecLex == InitLex /\ [][NextLex]_vars

\* The strict JSON number grammar as an automaton: the state behind byte b.
\* "stop" ends the number in front of b, "bad" is a violation of the grammar.
IsDigit(b) == b >= 48 /\ b <= 57
IsExp(b) == b = 101 \/ b = 69

NumberStep(q, b) ==
    CASE q \in {"start", "sign"} ->
            IF q = "start" /\ b = MINUS THEN "sign"
            ELSE IF b = 48 THEN "zero"
            ELSE IF IsDigit(b) THEN "int"
            ELSE "bad"                        \* missing integer part
      [] q = "zero" ->
            IF IsDigit(b) THEN "bad"          \* leading zero followed by a digit
            ELSE IF b = 46 THEN "dot" ELSE IF IsExp(b) THEN "e" ELSE "stop"
      [] q = "int" ->
            IF IsDigit(b) THEN "int"
            ELSE IF b = 46 THEN "dot" ELSE IF IsExp(b) THEN "e" ELSE "stop"
      [] q = "dot" -> IF IsDigit(b) THEN "frac" ELSE "bad"    \* empty fraction
      [] q = "frac" ->
            IF IsDigit(b) THEN "frac"
            ELSE IF b = 46 THEN "bad"         \* second . after a fraction
            ELSE IF IsExp(b) THEN "e" ELSE "stop"
      [] q = "e" ->
            IF b = 43 \/ b = MINUS THEN "esign"
            ELSE IF IsDigit(b) THEN "exp" ELSE "bad"          \* empty exponent
      [] q = "esign" -> IF IsDigit(b) THEN "exp" ELSE "bad"   \* empty exponent
      [] q = "exp" ->
            IF IsDigit(b) THEN "exp"
            ELSE IF IsExp(b) THEN "bad"       \* second exponent marker
            ELSE "stop"

RECURSIVE NumberGrammar(_, _, _)
\* Whether a number of the grammar starts at s[i], and its length.
NumberGrammar(s, i, q) ==
    LET q1 == IF i > Len(s) THEN (IF q \in {"zero", "int", "frac", "exp"}
                                  THEN "stop" ELSE "bad")
              ELSE NumberStep(q, s[i])
    IN  IF q1 = "bad" THEN [ok |-> FALSE, len |-> 0]
        ELSE IF q1 = "stop" THEN [ok |-> TRUE, len |-> i - 1]
        ELSE NumberGrammar(s, i + 1, q1)

\* C12: parseNumber accepts exactly the strict JSON number grammar (optional -,
\* a lone 0 or a nonzero digit and digits, an optional . with at least one
\* digit, an optional e/E with optional sign and at least one digit) and
\* consumes the number; a leading zero before a digit, a missing integer part,
\* an empty fraction, an empty exponent, a second . after a fraction and a
\* second exponent marker each give the invalid-number error and the value 0.
\* (A number of the grammar too large for a float64 is not invalid-number, C13.)
C12_NumberGrammar ==
    op.name = "parseNumber" =>
        LET g == NumberGrammar(data, 1, "start")
        IN  IF g.ok
            THEN /\ res.err # ErrInvalidNumber
                 /\ op.v.kind # "over" => res.err = NoError /\ cur = g.len
            ELSE res.err = ErrInvalidNumber /\ res.val = NumValue(FALSE, 0, 0)

C12_Witness ==
    /\ op.name = "parseNumber"
    /\ data = <<MINUS, 49, 48, 46, 48, 53, 101, 43, 49, 50>>
    /\ res.err = NoError
    /\ res.val = NumValue(TRUE, 1005, 10)
    /\ cur = 10


\* C13: a literal of the grammar whose magnitude is beyond the largest float64
\* gives the numeric-value-out-of-range error, never invalid-number; one that
\* underflows is accepted and decodes to zero.
C13_NumberRange ==
    op.name = "parseNumber" =>
        /\ op.v.kind = "over" =>
              res.err = ErrNumericValueOutOfRange /\ res.err # ErrInvalidNumber
        /\ op.v.kind = "under" =>
              res.err = NoError /\ res.val.t = "num" /\ res.val.m = 0
              /\ cur = Len(data)
        /\ op.v.kind = "large" => res.err = NoError /\ res.val.m # 0

C13_Witness ==
    /\ op.name = "parseNumber"
    /\ data = <<MINUS, 49, 46, 56, 101, 51, 48, 56>>
    /\ res.err = ErrNumericValueOutOfRange

C13_WitnessUnderflow ==
    /\ op.name = "parseNumber"
    /\ data = <<49, 101, MINUS, 57, 57, 57>>
    /\ res.err = NoError
    /\ res.val = NumValue(FALSE, 0, 0)


RECURSIVE Expected(_, _)
\* What the tokens ts behind the decoded bytes out, and then the end, are to
\* give: the error of the first token that has one, else the bytes they stand
\* for.
Expected(ts, out) ==
    IF ts = << >> THEN [val |-> out, err |-> NoError]
    ELSE IF ts[1].err # NoError THEN [val |-> << >>, err |-> ts[1].err]
    ELSE Expected(Tail(ts), out \o ts[1].out)

\* C14: parseString decodes the escapes \" \\ \/ \b \f \n \r \t and \u with
\* four hex digits (of a non-surrogate code unit) to their characters; any other
\* escape, a raw byte below 0x20, a backslash at the end of input and a missing
\* closing quote give invalid-string, a \u not followed by four hex digits
\* gives invalid-unicode-escape (whichever comes first in the input); on every
\* error the string returned is empty.
C14_StringEscapes ==
    (op.name = "parseString" /\ op.v.kind = "string") =>
        LET e == Expected(Append(op.v.tokens, op.v.end), << >>)
        IN  /\ res.err = e.err
            /\ res.val = StrValue(e.val)
            /\ res.err \in {NoError, ErrInvalidString, ErrInvalidUnicodeEscape}

C14_Witness ==
    /\ op.name = "parseString"
    /\ data = <<QUOTE, BACKSLASH, 110, BACKSLASH, 117, 50, 48, 97, 99, QUOTE>>
    /\ res.val = StrValue(<<10, 226, 130, 172>>)
    /\ res.err = NoError
    /\ cur = 10

C14_WitnessError ==
    /\ op.name = "parseString"
    /\ data = <<QUOTE, BACKSLASH, 116, BACKSLASH, 120, QUOTE>>
    /\ res.val = StrValue(<< >>)
    /\ res.err = ErrInvalidString


IsHigh(u) == u >= 55296 /\ u <= 56319
IsLow(u) == u >= 56320 /\ u <= 57343

\* The bytes of code point r in UTF-8 (for a surrogate unit, the three bytes
\* the same scheme gives it).
Utf8(r) ==
    IF r < 128 THEN <<r>>
    ELSE IF r < 2048 THEN <<192 + (r \div 64), 128 + (r % 64)>>
    ELSE IF r < 65536
    THEN <<224 + (r \div 4096), 128 + ((r \div 64) % 64), 128 + (r % 64)>>
    ELSE <<240 + (r \div 262144), 128 + ((r \div 4096) % 64),
           128 + ((r \div 64) % 64), 128 + (r % 64)>>

RECURSIVE Utf16Decode(_)
\* The string the code units stand for: a high half followed by a low half is
\* the one scalar they encode, every other unit is itself.
Utf16Decode(us) ==
    IF us = << >> THEN << >>
    ELSE IF Len(us) >= 2 /\ IsHigh(us[1]) /\ IsLow(us[2])
    THEN Utf8(65536 + (us[1] - 55296) * 1024 + (us[2] - 56320))
         \o Utf16Decode(Tail(Tail(us)))
    ELSE Utf8(us[1]) \o Utf16Decode(Tail(us))

HasPair(us) == \E i \in 1..Len(us) - 1 : IsHigh(us[i]) /\ IsLow(us[i + 1])

\* A surrogate unit that is not part of a pair.
HasLone(us) ==
    \E i \in 1..Len(us) :
        \/ IsHigh(us[i]) /\ ~(i < Len(us) /\ IsLow(us[i + 1]))
        \/ IsLow(us[i]) /\ ~(i > 1 /\ IsHigh(us[i - 1]))

\* C15: two consecutive \u escapes that are a high surrogate followed by a low
\* surrogate decode to the single scalar they encode (𝄞 to U+1D11E).
C15_SurrogatePairCombined ==
    (op.name = "parseString" /\ op.v.kind = "units"
     /\ HasPair(op.v.units) /\ ~HasLone(op.v.units)) =>
        res.err = NoError /\ res.val = StrValue(Utf16Decode(op.v.units))

\* C16: a \u escape of a surrogate unit that is not part of a pair decodes
\* without an error to that unit itself, not to a substitute character.
C16_LoneSurrogateKept ==
    (op.name = "parseString" /\ op.v.kind = "units"
     /\ HasLone(op.v.units) /\ ~HasPair(op.v.units)) =>
        res.err = NoError /\ res.val = StrValue(Utf16Decode(op.v.units))

(***************************************************************************)
(* C17: when the callback handed to ReadObjectCallback or ReadArrayCallback *)
(* returns an error, the reader returns that error at once: the callback   *)
(* is not invoked again, and the cursor is right behind the value whose    *)
(* callback failed, no further byte of the input consumed.                 *)
(***************************************************************************)
CallbackReaders == {"ReadObjectCallback", "ReadArrayCallback"}

\* The callback of the last read returned its error.
CallbackFailed ==
    /\ op.name \in CallbackReaders
    /\ res.cb.failAt > 0
    /\ Len(res.cb.calls) >= res.cb.failAt

\* The offset behind the k-th member or element of the input, read off the
\* parts the text was put together from.
BehindValue(input, k) ==
    CASE input.kind \in {"object", "objectComma"} ->
            1 + Len(membersText(SubSeq(input.members, 1, k), 1, input.spaced))
      [] input.kind = "array" ->
            1 + Len(elemsText(SubSeq(input.elems, 1, k), 1, input.spaced))
              - (IF input.spaced THEN 1 ELSE 0)
      [] input.kind = "cut" -> input.ends[k]
      [] input.kind = "follow" -> Len(input.head) - 1
      [] OTHER -> -1

C17_CallbackErrorStops ==
    CallbackFailed =>
        /\ res.err = CallbackErr
        /\ Len(res.cb.calls) = res.cb.failAt
        /\ cur = BehindValue(op.v, res.cb.failAt)
        /\ cur < Len(data) \/ (op.v.kind = "cut" /\ cur = Len(data))

\* ReadObjectCallback over {"a" :<tab>1, "b" :<tab>2} whose callback fails at
\* the first member: one invocation, the cursor behind the 1.
C17_Witness ==
    /\ op.name = "ReadObjectCallback"
    /\ data = <<LBRACE, QUOTE, 97, QUOTE, 32, COLON, 9, 49, COMMA, 32,
                QUOTE, 98, QUOTE, 32, COLON, 9, 50, RBRACE>>
    /\ res.cb.failAt = 1
    /\ res.err = CallbackErr
    /\ Len(res.cb.calls) = 1
    /\ res.cb.calls[1].key = <<97>> /\ res.cb.calls[1].v = NumValue(FALSE, 1, 0)
    /\ cur = 8

(***************************************************************************)
(* C18: ReadValue skips whitespace and dispatches on the next byte only:   *)
(* { object, [ array, " string, t or f boolean, n null, - or a digit       *)
(* number.  Any other byte, and a t, f or n that does not begin the whole  *)
(* literal true, false or null, is unexpected-token; no byte left behind   *)
(* the whitespace is unexpected-end-of-input; and whenever an error is     *)
(* returned the value returned with it is nil.                             *)
(***************************************************************************)
JSONSpace == {32, 9, 10, 13}

\* The offset of the first byte at or behind c that is not whitespace.
Significant(d, c) ==
    CHOOSE p \in c..Len(d) :
        /\ \A i \in c + 1..p : d[i] \in JSONSpace
        /\ p < Len(d) => d[p + 1] \notin JSONSpace

StartsWith(d, p, seq) ==
    /\ p + Len(seq) <= Len(d)
    /\ SubSeq(d, p + 1, p + Len(seq)) = seq

\* The dispatch of the last ReadValue, the value that comes with an error
\* left aside.
Dispatch ==
    LET p == Significant(data, mark)
        b == IF p < Len(data) THEN data[p + 1] ELSE -1
        lit(seq, val) ==
            IF StartsWith(data, p, seq)
            THEN res.err = NoError /\ res.val = val /\ cur = p + Len(seq)
            ELSE res.err = ErrUnexpectedToken
    IN  CASE b = -1 -> res.err = ErrUnexpectedEOF
          [] b = LBRACE -> res.err = NoError => res.val.t = "obj"
          [] b = LBRACKET -> res.err = NoError => res.val.t = "arr"
          [] b = QUOTE ->
                 /\ res.err \in {NoError, ErrInvalidString, ErrInvalidUnicodeEscape}
                 /\ res.err = NoError => res.val.t = "str"
          [] b = 116 -> lit(Str_true, BoolValue(TRUE))
          [] b = 102 -> lit(Str_false, BoolValue(FALSE))
          [] b = 110 -> lit(Str_null, NilValue)
          [] b = MINUS \/ b \in 48..57 ->
                 /\ res.err \in {NoError, ErrInvalidNumber, ErrNumericValueOutOfRange}
                 /\ res.err = NoError => res.val.t = "num"
          [] OTHER -> res.err = ErrUnexpectedToken

C18_ReadValueDispatch ==
    op.name = "ReadValue" =>
        /\ Dispatch
        /\ res.err # NoError => res.val = NilValue

(***************************************************************************)
(* C19: NewScanner without options leaves the cursor behind a leading      *)
(* 3-byte BOM (EF BB BF) and behind the whitespace that follows;           *)
(* ScannerFlagDoNotSkipBOM and ScannerFlagDoNotSkipInitialWhitespace each  *)
(* switch off their own skip and leave the other in force; with both the   *)
(* cursor is at offset 0; a BOM that is not complete is never skipped.     *)
(***************************************************************************)
C19_NewScannerSkips ==
    op.name = "NewScanner" =>
        LET hasBOM == StartsWith(data, 0, BOM)
            skipsBOM == ScannerFlagDoNotSkipBOM \notin flags
            skipsWhitespace == ScannerFlagDoNotSkipInitialWhitespace \notin flags
        IN  /\ (skipsBOM /\ skipsWhitespace) =>
                  cur = Significant(data, IF hasBOM THEN 3 ELSE 0)
            /\ (~skipsBOM /\ skipsWhitespace) => cur = Significant(data, 0)
            /\ (skipsBOM /\ ~skipsWhitespace) => cur = (IF hasBOM THEN 3 ELSE 0)
            /\ (~skipsBOM /\ ~skipsWhitespace) => cur = 0
            /\ ~hasBOM => cur <= Significant(data, 0)

\* NewScanner without options over BOM, tab, LF, CR, true: the cursor at the t.
C19_Witness ==
    /\ op.name = "NewScanner"
    /\ flags = {}
    /\ data = BOM \o <<9, 10, 13>> \o Str_true
    /\ cur = 6

\* NewScanner with DoNotSkipBOM over a space, the start of a BOM, a space: the
\* cursor behind the first space.
C19_WitnessIncomplete ==
    /\ op.name = "NewScanner"
    /\ flags = {ScannerFlagDoNotSkipBOM}
    /\ data = <<32, 239, 187, 32>>
    /\ cur = 1

(***************************************************************************)
(* C20: Marshal called with a FloatPrecision option whose Precision is     *)
(* negative returns an error and the empty string before any marshaling    *)
(* starts: no capability, procedure or sink write is invoked, and the      *)
(* error does not pass through the Decorator's error latch.                *)
(***************************************************************************)
HasNegative(opts) == \E i \in DOMAIN opts : opts[i] < 0

FirstNegative(opts) ==
    opts[CHOOSE i \in DOMAIN opts :
            opts[i] < 0 /\ \A j \in 1..i - 1 : opts[j] >= 0]

C20_NegativePrecisionRejected ==
    (op.name = "MarshalOptions" /\ HasNegative(op.opts)) =>
        /\ ret.err = [e |-> "invalid float precision", p |-> FirstNegative(op.opts)]
        /\ ret.s = << >>
        /\ ret.d.log = << >>
        /\ ret.d.out = << >>
        /\ ret.d.err = NoError

\* Marshal of a pointer to a value with a JSON capability, FloatPrecision{2}
\* and FloatPrecision{-1}: the error, and the capability not invoked.
C20_Witness ==
    /\ op.name = "MarshalOptions"
    /\ op.opts = <<2, -1>>
    /\ op.v \in CustomValues /\ ExpectedCap(op.v) # "none"
    /\ ret.err = [e |-> "invalid float precision", p |-> -1]
    /\ ret.s = << >> /\ ret.d.log = << >>

(***************************************************************************)
(* Nested marshaling: Marshal of a leaf value behind up to MaxDepth         *)
(* wrappers, each a slice, a map, a procedure or a marshaler that holds the *)
(* value below it.  In these sessions op.v is the value marshalled and      *)
(* op.nest the parts it was built from:                                     *)
(*   leaf    the innermost value, kind what it is ("cap": a capability or   *)
(*           procedure that returns the error err, "unsupported", "nan",    *)
(*           "clean"), err the error marshalValue latches for it            *)
(*   wraps   the wrappers from the innermost to the outermost, each with    *)
(*           fails: whether the procedure or marshaler returns an error     *)
(***************************************************************************)
MaxDepth == 2

OneCall(w) == IF w = "obj" THEN <<Call(KeyA, IntV(1))>> ELSE <<Call(<< >>, IntV(1))>>

\* Capabilities and procedures that return UserErr(1), having emitted nothing
\* or one element or member.
FailingLeaves ==
    UNION {{Custom(w, "val", FALSE, "val", << >>, UserErr(1), IntV(7)),
            Custom(w, "val", FALSE, "val", OneCall(w), UserErr(1), IntV(7)),
            FuncV(w, TRUE, << >>, UserErr(1)),
            FuncV(w, TRUE, OneCall(w), UserErr(1))} : w \in {"obj", "arr"}}
    \cup {Custom("str", "val", FALSE, "val", << >>, UserErr(1), IntV(7)),
          Custom("none", "val", TRUE, "val", << >>, UserErr(1), IntV(7)),
          PtrTo(Custom("none", "val", TRUE, "ptr", << >>, UserErr(1), IntV(7))),
          PtrTo(Custom("str", "ptr", FALSE, "val", << >>, UserErr(1), IntV(7))),
          PtrTo(Custom("obj", "ptr", FALSE, "val", OneCall("obj"), UserErr(1),
                       IntV(7)))}

\* Values of no capability and no supported kind, each with the name of its
\* type: a channel, a struct, a function that is no procedure, a complex
\* number, a map with int keys, a pointer to a struct, and a named struct whose
\* only capability is on the pointer, passed by value.
UnsupportedLeaves ==
    {[v |-> Other("chan int"), typ |-> "chan int"],
     [v |-> Other("jsn.plain"), typ |-> "jsn.plain"],
     [v |-> Other("func()"), typ |-> "func()"],
     [v |-> Other("complex128"), typ |-> "complex128"],
     [v |-> IntKeyMap, typ |-> "map[int]interface {}"],
     [v |-> PtrTo(Other("jsn.plain")), typ |-> "jsn.plain"],
     [v |-> Custom("str", "ptr", FALSE, "val", << >>, NoError, Other("jsn.custom")),
      typ |-> "jsn.custom"]}

CleanLeaves ==
    {StrV(<<RBRACKET, RBRACE, COMMA, QUOTE, COLON, LBRACE>>), StrV(<< >>), IntV(-12),
     BoolV(FALSE), FuncV("arr", FALSE, << >>, NoError),
     FuncV("obj", TRUE, << >>, NoError)}

Leaves ==
    {[v |-> x, kind |-> "cap", err |-> UserErr(1)] : x \in FailingLeaves}
    \cup {[v |-> x.v, kind |-> "unsupported", err |-> UnsupportedTypeError(x.typ)] :
            x \in UnsupportedLeaves}
    \cup {[v |-> NaN, kind |-> "nan", err |-> [e |-> "unsupported float value"]]}
    \cup {[v |-> x, kind |-> "clean", err |-> NoError] : x \in CleanLeaves}

\* The wrappers: what holds the value, and whether it returns an error.
Wrappers ==
    {[w |-> w, fails |-> FALSE] :
        w \in {"slice", "map", "func arr", "func obj", "func arr error",
               "func obj error", "marshaler arr", "marshaler obj"}}
    \cup {[w |-> w, fails |-> TRUE] :
            w \in {"func arr error", "func obj error", "marshaler arr",
                   "marshaler obj"}}

\* The error a failing wrapper at the given level returns.
WrapErr(wd, level) == IF wd.fails THEN UserErr(10 + level) ELSE NoError

Wrap(wd, level, x) ==
    CASE wd.w = "slice" -> SliceV(<<IntV(1), x>>)
      [] wd.w = "map" -> MapV(<<Pair(KeyA, x)>>)
      [] wd.w = "func arr" ->
            FuncV("arr", FALSE, <<Call(<< >>, x), Call(<< >>, BoolV(TRUE))>>, NoError)
      [] wd.w = "func obj" ->
            FuncV("obj", FALSE, <<Call(KeyA, IntV(1)), Call(KeyB, x)>>, NoError)
      [] wd.w = "func arr error" ->
            FuncV("arr", TRUE, <<Call(<< >>, x), Call(<< >>, x)>>, WrapErr(wd, level))
      [] wd.w = "func obj error" ->
            FuncV("obj", TRUE, <<Call(KeyA, x)>>, WrapErr(wd, level))
      [] wd.w = "marshaler arr" ->
            Custom("arr", "val", FALSE, "val", <<Call(<< >>, x)>>, WrapErr(wd, level),
                   IntV(7))
      [] OTHER ->
            Custom("obj", "val", FALSE, "val", <<Call(KeyA, x), Call(KeyB, x)>>,
                   WrapErr(wd, level), IntV(7))

RECURSIVE Build(_, _, _)
Build(x, wraps, level) ==
    IF level > Len(wraps) THEN x
    ELSE Build(Wrap(wraps[level], level, x), wraps, level + 1)

Nests == [leaf : Leaves, wraps : SeqsUpTo(Wrappers, MaxDepth)]

InitNest ==
    /\ dec = newDecorator(DefaultPrecision, -1, 0)
    /\ aw = NoWriter
    /\ op = [name |-> "init", v |-> Nil, key |-> << >>, pre |-> dec]
    /\ ret = NoReturn
    /\ ScannerIdle

\* Marshal(v) of a nested value.
MarshalNest ==
    /\ op.name = "init"
    /\ \E nest \in Nests :
          LET v == Build(nest.leaf.v, nest.wraps, 1)
          IN  /\ ret' = Marshal(v, << >>)
              /\ op' = [name |-> "MarshalNest", v |-> v, key |-> << >>, pre |-> dec,
                        nest |-> nest]
    /\ UNCHANGED <<dec, aw, data, cur, flags, res, mark>>

\* d.scrambleStr(s) on a fresh decorator: every single byte, and the strings
\* of up to MaxScramble bytes of ScrambleBytes.
MaxScramble == 2
ScrambleBytes == {0, 8, 9, 10, 12, 13, 11, 15, 16, 26, 31, 32, 34, 47, 92, 97, 127, 128, 255}
ScrambleStrings ==
    {<<b>> : b \in 0..255} \cup SeqsUpTo(ScrambleBytes, MaxScramble)
    \cup {[i \in 1..8 |-> 8 * k + i - 1] : k \in 0..3}

ScrambleStrCall ==
    /\ op.name = "init"
    /\ \E s \in ScrambleStrings :
          /\ dec' = scrambleStr(dec, s)
          /\ op' = [name |-> "scrambleStr", v |-> StrV(s), key |-> << >>, pre |-> dec]
    /\ UNCHANGED <<aw, ret, data, cur, flags, res, mark>>

NextNest ==
    \/ MarshalNest
    \/ ScrambleStrCall

SpecNest == InitNest /\ [][NextNest]_vars

(***************************************************************************)
(* C21: when the invoked capability (object, array, string or text         *)
(* marshaler) or an array/object-producing function returns an error,      *)
(* Marshal returns exactly that error value together with the empty        *)
(* string, whether or not elements were emitted before the failure and at  *)
(* whatever depth the failure occurs.                                      *)
(***************************************************************************)
\* The errors the capabilities and procedures of the nest return: all of them
\* are invoked, the enclosing ones before the enclosed.
ReturnedErrors(nest) ==
    (IF nest.leaf.kind = "cap" THEN {nest.leaf.err} ELSE {})
    \cup {WrapErr(nest.wraps[i], i) : i \in {j \in DOMAIN nest.wraps : nest.wraps[j].fails}}

\* The error that comes first in the order of execution: the leaf's, or that
\* of the innermost wrapper that fails.
FirstError(nest) ==
    IF nest.leaf.err # NoError THEN nest.leaf.err
    ELSE LET failing == {j \in DOMAIN nest.wraps : nest.wraps[j].fails}
         IN  IF failing = {} THEN NoError
             ELSE LET i == CHOOSE j \in failing : \A k \in failing : j <= k
                  IN  WrapErr(nest.wraps[i], i)

\* C21 as stated: every error a capability or procedure returns is the error
\* Marshal returns.
C21_EveryReturnedError ==
    (op.name = "MarshalNest" /\ ReturnedErrors(op.nest) # {}) =>
        /\ ret.s = << >>
        /\ \A e \in ReturnedErrors(op.nest) : ret.err = e

\* C21, amended: Marshal returns the empty string and the error that was
\* latched first; the error a procedure returns after a value it emitted has
\* failed is dropped.
C21_FirstReturnedError ==
    (op.name = "MarshalNest" /\ ReturnedErrors(op.nest) # {}) =>
        /\ ret.s = << >>
        /\ ret.err = FirstError(op.nest)
        /\ ret.err \in ReturnedErrors(op.nest) \cup {op.nest.leaf.err}

\* A string marshaler that fails, in a map in a slice: its error comes back.
C21_Witness ==
    /\ op.name = "MarshalNest"
    /\ op.v = SliceV(<<IntV(1),
                      MapV(<<Pair(KeyA, Custom("str", "val", FALSE, "val", << >>,
                                               UserErr(1), IntV(7)))>>)>>)
    /\ ret.err = UserErr(1)
    /\ ret.s = << >>
    /\ ret.d.out = <<LBRACKET, 49, COMMA, LBRACE, QUOTE, 97, QUOTE, COLON>>

\* An array marshaler that returns an error after the channel it emitted was
\* refused: the error of the channel comes back.
C21_WitnessMasked ==
    /\ op.name = "MarshalNest"
    /\ op.nest.leaf.v = Other("chan int")
    /\ op.nest.wraps = <<[w |-> "marshaler arr", fails |-> TRUE]>>
    /\ ret.err = UnsupportedTypeError("chan int")

(***************************************************************************)
(* C22: Marshal of a value with no capability that is not a sequence, a    *)
(* string-keyed mapping, an integer, a float, a string, a boolean or a     *)
(* byte sequence (a struct without marshaler, a channel, a function that   *)
(* is no array/object procedure, a complex number, a mapping with          *)
(* non-string keys) fails with an UnsupportedTypeError naming that type    *)
(* and returns the empty string, also when the value is nested in a slice, *)
(* a mapping or a Builder call.                                            *)
(***************************************************************************)
C22_UnsupportedTypeError ==
    (op.name = "MarshalNest" /\ op.nest.leaf.kind = "unsupported") =>
        /\ ret.err.e = "UnsupportedTypeError"
        /\ ret.err = op.nest.leaf.err
        /\ ret.s = << >>

\* A channel handed to Member by a procedure that is an element of a slice.
C22_Witness ==
    /\ op.name = "MarshalNest"
    /\ op.v = SliceV(<<IntV(1),
                      FuncV("obj", FALSE,
                            <<Call(KeyA, IntV(1)), Call(KeyB, Other("chan int"))>>,
                            NoError)>>)
    /\ ret.err = UnsupportedTypeError("chan int")
    /\ ret.s = << >>

(***************************************************************************)
(* C23: scrambleStr maps every input byte on its own and in order:         *)
(* backspace, form feed, newline, carriage return, tab, backslash and      *)
(* double quote become their two-character mnemonics, every other byte     *)
(* below 0x20 becomes \u00XX with lowercase hex digits, and every other    *)
(* byte (/, 0x7F and all bytes >= 0x80 included) is copied unchanged; the  *)
(* output never holds a raw byte below 0x20 or an unescaped double quote.  *)
(***************************************************************************)
LowerHex == <<48, 49, 50, 51, 52, 53, 54, 55, 56, 57, 97, 98, 99, 100, 101, 102>>

\* The image of one byte.
Scrambled(b) ==
    CASE b = 8 -> <<BACKSLASH, 98>>
      [] b = 12 -> <<BACKSLASH, 102>>
      [] b = 10 -> <<BACKSLASH, 110>>
      [] b = 13 -> <<BACKSLASH, 114>>
      [] b = 9 -> <<BACKSLASH, 116>>
      [] b = BACKSLASH -> <<BACKSLASH, BACKSLASH>>
      [] b = QUOTE -> <<BACKSLASH, QUOTE>>
      [] b < 32 ->
            <<BACKSLASH, 117, 48, 48, LowerHex[(b \div 16) + 1], LowerHex[(b % 16) + 1]>>
      [] OTHER -> <<b>>

RECURSIVE ScrambledText(_)
ScrambledText(s) ==
    IF s = << >> THEN << >> ELSE Scrambled(Head(s)) \o ScrambledText(Tail(s))

\* Whether t holds, at or behind its i-th byte, a double quote that no
\* backslash escapes.
RECURSIVE BareQuote(_, _)
BareQuote(t, i) ==
    IF i > Len(t) THEN FALSE
    ELSE IF t[i] = BACKSLASH THEN BareQuote(t, i + 2)
    ELSE IF t[i] = QUOTE THEN TRUE
    ELSE BareQuote(t, i + 1)

C23_ScrambleStrBytes ==
    op.name = "scrambleStr" =>
        /\ dec.err = NoError
        /\ dec.out = ScrambledText(op.v.s)
        /\ \A i \in DOMAIN dec.out : dec.out[i] >= 32
        /\ ~BareQuote(dec.out, 1)

\* scrambleStr of the bytes 1A and ": \u001a and \".
C23_Witness ==
    /\ op.name = "scrambleStr"
    /\ op.v.s = <<26, 34>>
    /\ dec.out = <<BACKSLASH, 117, 48, 48, 49, 97, BACKSLASH, QUOTE>>

(***************************************************************************)
(* C24: ReadValue enforces nothing about what follows the value it reads:  *)
(* whenever the input, behind optional whitespace, starts with a complete  *)
(* JSON value, ReadValue succeeds whatever bytes follow that value and     *)
(* leaves the cursor on the first byte behind it (trailing whitespace not  *)
(* consumed); trailing content is rejected only by Finalize.               *)
(***************************************************************************)
\* Whether the first k bytes of s are a number of the JSON grammar.
IsNumber(s, k) ==
    LET g == NumberGrammar(SubSeq(s, 1, k), 1, "start")
    IN  g.ok /\ g.len = k

StartsNumber(s) == s # << >> /\ (s[1] = MINUS \/ IsDigit(s[1]))

\* The length of the value the input starts with: of the longest number, or
\* of the literal, string, array or object it was put together from.
ValueEnd(input) ==
    IF StartsNumber(input.text)
    THEN CHOOSE k \in 1..Len(input.text) :
            /\ IsNumber(input.text, k)
            /\ \A j \in k + 1..Len(input.text) : ~IsNumber(input.text, j)
    ELSE Len(input.head)

\* A number followed by a byte that parseNumber takes for its continuation:
\* an exponent marker, a dot behind a number without exponent, a digit behind
\* a lone zero.
Continued(input) ==
    /\ StartsNumber(input.text)
    /\ ValueEnd(input) < Len(input.text)
    /\ LET k == ValueEnd(input)
           b == input.text[k + 1]
           number == SubSeq(input.text, 1, k)
       IN  \/ IsExp(b)
           \/ b = 46 /\ \A i \in 1..k : ~IsExp(number[i])
           \/ IsDigit(b) /\ number \in {<<48>>, <<MINUS, 48>>}

FinalizeRejectsRest ==
    (op.name = "Finalize" /\ op.v.kind = "follow" /\ op.pre.val.t # "none"
        /\ op.pre.err = NoError) =>
        (res.fin = NoError <=> \A i \in mark + 1..Len(data) : data[i] \in JSONSpace)

C24_WitnessNumber ==
    /\ op.name = "ReadValue"
    /\ data = <<49, 46, 53, 46>>
    /\ res.err = ErrInvalidNumber

(***************************************************************************)
(* Sequences of Scanner operations on one buffer: after NewScanner, up to  *)
(* MaxOps calls of SkipBOM, the readers, Finalize, peek and next, in any   *)
(* order.  op.n counts the calls, res.b is the byte peek or next returned. *)
(***************************************************************************)
MaxOps == 3

SeqTexts ==
    {<< >>, <<32>>, BOM, BOM \o <<49>>, BOM \o BOM, BOM \o <<32, 49, 32>>,
     BOM \o <<LBRACKET, 49, RBRACKET>>, BOM \o <<QUOTE, 97, QUOTE, 49, 50>>,
     <<49, 32, 50, 32, 51>>, <<49, 46, 53, 46, 49>>, <<32, 49, 101>>,
     <<LBRACKET, 49, RBRACKET, 32, LBRACKET, RBRACKET>>,
     <<LBRACE, QUOTE, 97, QUOTE, COLON, 49, RBRACE, QUOTE, 98, QUOTE>>,
     <<LBRACE, RBRACE, LBRACKET, 49, COMMA>>,
     <<QUOTE, 97, BACKSLASH, QUOTE, 98, QUOTE, 32, 49>>,
     <<QUOTE, 97, BACKSLASH, 120, QUOTE>>, <<QUOTE, 97, BACKSLASH>>,
     <<QUOTE, 97, 10, QUOTE>>, <<239, 187>>, <<32, 32>> \o Str_true \o Str_null}

SeqInputs ==
    {[kind |-> "seq", members |-> << >>, text |-> t, trail |-> << >>, lead |-> << >>] :
        t \in SeqTexts}

SeqResult(r, b) == [val |-> r.val, err |-> r.err, fin |-> r.fin, cb |-> r.cb, b |-> b]

InitSeq ==
    /\ dec = newDecorator(DefaultPrecision, -1, 0)
    /\ aw = NoWriter
    /\ op = [name |-> "init", v |-> Nil, key |-> << >>, pre |-> SeqResult(NoResult, -1),
             n |-> 0]
    /\ ret = NoReturn
    /\ data = << >>
    /\ cur = 0
    /\ flags = {}
    /\ res = SeqResult(NoResult, -1)
    /\ mark = 0

\* The bookkeeping of one more call on the scanner.
Called(name) ==
    /\ op.name # "init"
    /\ op.n < MaxOps
    /\ op' = [op EXCEPT !.name = name, !.pre = res, !.n = @ + 1]
    /\ mark' = cur
    /\ UNCHANGED <<dec, aw, ret, data, flags>>

\* s := NewScanner(data, flags...)
NewScannerSeq ==
    /\ op.name = "init"
    /\ \E input \in SeqInputs, fl \in SUBSET ScannerFlags :
          /\ data' = input.text
          /\ flags' = fl
          /\ cur' = NewScanner(input.text, fl)
          /\ op' = [op EXCEPT !.name = "NewScanner", !.v = input]
    /\ mark' = 0
    /\ UNCHANGED <<dec, aw, ret, res>>

\* s.SkipBOM()
SkipBOMSeq ==
    /\ Called("SkipBOM")
    /\ cur' = SkipBOM(data, cur).cur
    /\ res' = SeqResult(res, -1)

\* v, err := ReadValue(s)
ReadValueSeq ==
    /\ Called("ReadValue")
    /\ LET r == ReadValue(data, cur)
       IN  /\ cur' = r.cur
           /\ res' = SeqResult([NoResult EXCEPT !.val = r.val, !.err = r.err], -1)

\* m, err := ReadObject(s)
ReadObjectSeq ==
    /\ Called("ReadObject")
    /\ LET r == ReadObject(data, cur)
       IN  /\ cur' = r.cur
           /\ res' = SeqResult([NoResult EXCEPT !.val = r.val, !.err = r.err], -1)

\* arr, err := ReadArray(s)
ReadArraySeq ==
    /\ Called("ReadArray")
    /\ LET r == ReadArray(data, cur)
       IN  /\ cur' = r.cur
           /\ res' = SeqResult([NoResult EXCEPT !.val = r.val, !.err = r.err], -1)

\* err := ReadObjectCallback(s, callback)
ReadObjectCallbackSeq ==
    /\ Called("ReadObjectCallback")
    /\ \E failAt \in 0..1 :
          LET r == ReadObjectCallback(data, cur, newCallback("user", failAt))
          IN  /\ cur' = r.cur
              /\ res' = SeqResult([NoResult EXCEPT !.err = r.err, !.cb = r.cb], -1)

\* err := ReadArrayCallback(s, callback)
ReadArrayCallbackSeq ==
    /\ Called("ReadArrayCallback")
    /\ \E failAt \in 0..1 :
          LET r == ReadArrayCallback(data, cur, newCallback("user", failAt))
          IN  /\ cur' = r.cur
              /\ res' = SeqResult([NoResult EXCEPT !.err = r.err, !.cb = r.cb], -1)

\* err := s.Finalize()
FinalizeSeq ==
    /\ Called("Finalize")
    /\ LET f == Finalize(data, cur)
       IN  /\ cur' = f.cur
           /\ res' = SeqResult([res EXCEPT !.fin = f.err], -1)

\* b := s.peek()
PeekSeq ==
    /\ Called("peek")
    /\ cur' = cur
    /\ res' = SeqResult(res, peek(data, cur))

\* b := s.next()
NextSeq ==
    /\ Called("next")
    /\ LET n == next(data, cur)
       IN  /\ cur' = n.cur
           /\ res' = SeqResult(res, n.b)

NextOfSeq ==
    \/ NewScannerSeq
    \/ SkipBOMSeq
    \/ ReadValueSeq
    \/ ReadObjectSeq
    \/ ReadArraySeq
    \/ ReadObjectCallbackSeq
    \/ ReadArrayCallbackSeq
    \/ FinalizeSeq
    \/ PeekSeq
    \/ NextSeq

SpecSeq == InitSeq /\ [][NextOfSeq]_vars

(***************************************************************************)
(* C25: observed between Scanner operations (NewScanner, SkipBOM, the      *)
(* readers, the callback readers, Finalize), the cursor never decreases, on *)
(* success and on error alike; the only backward move, the restart of      *)
(* parseString behind the opening quote, never goes below the cursor at    *)
(* entry to parseString.                                                   *)
(***************************************************************************)
\* Where parseString restarts for its second pass: behind the opening quote.
Restart(c) == c + 1

C25_CursorNeverDecreases ==
    [][/\ op.name # "init" => cur' >= cur
       /\ op.name = "init" => cur' >= 0
       /\ (cur' < Len(data') /\ data'[cur' + 1] = QUOTE) =>
             /\ Restart(cur') >= cur'
             /\ parseString(data', cur').cur >= Restart(cur')]_vars

\* A read that failed with the cursor moved forward, and the next read going
\* on from there: the number of 1.5.1 is cut short behind its second dot.
C25_Witness ==
    /\ op.name = "ReadValue" /\ op.n = 2
    /\ data = <<49, 46, 53, 46, 49>>
    /\ op.pre.err = ErrInvalidNumber
    /\ mark = 4 /\ cur = 5
    /\ res.err = NoError

(***************************************************************************)
(* C26: after any sequence of Scanner operations on one buffer, SkipBOM    *)
(* called again after NewScanner or after reads included, the cursor       *)
(* satisfies 0 <= cursor <= len(input), and peek and next past the end     *)
(* return 0 without moving the cursor.                                     *)
(***************************************************************************)
\* peek and next called at or past the end: 0, the cursor where it was.
PastEndReturnsZero ==
    (op.name \in {"peek", "next"} /\ mark >= Len(data)) => (res.b = 0 /\ cur = mark)

C26_CursorWithinInput ==
    /\ 0 <= cur /\ cur <= Len(data)
    /\ PastEndReturnsZero

\* The cursor leaves the input only through SkipBOM.
C26_OnlySkipBOMLeaves ==
    [][(cur <= Len(data) /\ op'.name \notin {"SkipBOM", "NewScanner"})
          => cur' <= Len(data')]_vars

(***************************************************************************)
(* C27: the container readers agree with ReadValue: on every input that    *)
(* starts with { (resp. [), ReadObject (resp. ReadArray) succeeds exactly  *)
(* when ReadValue does, then returns the same mapping (resp. sequence) and *)
(* leaves the cursor at the same position, and when both fail they return  *)
(* the same error kind, unexpected-end-of-input versus unexpected-token on *)
(* truncated input included.                                               *)
(***************************************************************************)
\* What the reader returned, against ReadValue from the same position.
AgreesWithReadValue ==
    LET v == ReadValue(data, mark)
    IN  /\ res.err = NoError <=> v.err = NoError
        /\ res.err = NoError => (res.val = v.val /\ cur = v.cur)
        /\ res.err # NoError => res.err = v.err

C27_ReadersAgree ==
    /\ (op.name = "ReadObject" /\ peek(data, mark) = LBRACE) => AgreesWithReadValue
    /\ (op.name = "ReadArray" /\ peek(data, mark) = LBRACKET) => AgreesWithReadValue

\* The part that holds: ReadArray agrees in all three respects, ReadObject in
\* whether it succeeds, in the mapping and in the cursor.
C27_AgreeButObjectErrorKind ==
    /\ (op.name = "ReadArray" /\ peek(data, mark) = LBRACKET) => AgreesWithReadValue
    /\ (op.name = "ReadObject" /\ peek(data, mark) = LBRACE) =>
          LET v == ReadValue(data, mark)
          IN  /\ res.err = NoError <=> v.err = NoError
              /\ res.err = NoError => (res.val = v.val /\ cur = v.cur)
              /\ res.err # v.err =>
                    (res.err = ErrUnexpectedToken /\ v.err = ErrUnexpectedEOF)

(***************************************************************************)
(* The readers step by step (reader.go).  A reader call in progress is the *)
(* Go call stack of its loops: one frame per ReadValue call that is inside *)
(* its object or array loop, below them the frame of ReadObjectCallback or *)
(* ReadArrayCallback when that is the reader called.  A frame is           *)
(*   kind   "obj", "arr" (the loops of ReadValue), "objcb", "arrcb"        *)
(*   acc    the map or slice built so far                                  *)
(*   key    the key of the member whose value is being read                *)
(*   at     the cursor at which the frame's latest iteration began (the    *)
(*          place of the opening byte before the first)                    *)
(* res holds, besides the result, the stack, and                           *)
(*   st     "call": ReadValue is about to be called at the cursor          *)
(*          "iter": the loop of the top frame is about to iterate          *)
(*          "ret":  a call has returned res.val, res.err to the top frame, *)
(*                  or to the caller of the reader when the stack is empty *)
(*   iters, calls   the iterations begun and the ReadValue calls made      *)
(*   last   the cursor at which the latest ReadValue call was made         *)
(***************************************************************************)
MaxOpeners == 4

newFrame(kind, at) ==
    [kind |-> kind, acc |-> IF kind \in {"obj", "objcb"} THEN EmptyMap ELSE << >>,
     key |-> << >>, at |-> at]

Top(stack) == stack[Len(stack)]
Pop(stack) == SubSeq(stack, 1, Len(stack) - 1)
SetTop(stack, f) == [stack EXCEPT ![Len(stack)] = f]

returned(c, stack, val, err, cb) ==
    [cur |-> c, stack |-> stack, st |-> "ret", val |-> val, err |-> err, cb |-> cb]

calling(c, stack, cb) ==
    [cur |-> c, stack |-> stack, st |-> "call", val |-> NilValue, err |-> NoError,
     cb |-> cb]

iterating(c, stack, cb) ==
    [cur |-> c, stack |-> stack, st |-> "iter", val |-> NilValue, err |-> NoError,
     cb |-> cb]

\* ReadValue entered without moving behind the opening byte of a container.
enterValueNoAdvance(d, c0, stack, cb) ==
    LET c == skipWhitespace(d, c0)
        b == peek(d, c)
    IN  IF IsEOF(d, c) THEN returned(c, stack, NilValue, ErrUnexpectedEOF, cb)
        ELSE IF b = LBRACE
        THEN iterating(c, Append(stack, newFrame("obj", c)), cb)
        ELSE IF b = LBRACKET
        THEN iterating(c, Append(stack, newFrame("arr", c)), cb)
        ELSE LET r == ReadValue(d, c) IN returned(r.cur, stack, r.val, r.err, cb)

\* ReadValue from its entry to the return of a scalar or an empty container,
\* or to the first iteration of its object or array loop.
enterValue(d, c0, stack, cb) ==
    LET c == skipWhitespace(d, c0)
        b == peek(d, c)
        c1 == skipWhitespace(d, c + 1)
    IN  IF IsEOF(d, c) THEN returned(c, stack, NilValue, ErrUnexpectedEOF, cb)
        ELSE IF b = LBRACE
        THEN IF skipByte(d, c1, RBRACE).ok
             THEN returned(c1 + 1, stack, ObjValue(EmptyMap), NoError, cb)
             ELSE iterating(c1, Append(stack, newFrame("obj", c)), cb)
        ELSE IF b = LBRACKET
        THEN IF skipByte(d, c1, RBRACKET).ok
             THEN returned(c1 + 1, stack, ArrValue(<< >>), NoError, cb)
             ELSE iterating(c1, Append(stack, newFrame("arr", c)), cb)
        ELSE LET r == ReadValue(d, c) IN returned(r.cur, stack, r.val, r.err, cb)

\* One iteration of the top frame's loop, up to its call of ReadValue.
iterate(d, c, stack, cb) ==
    LET f == [Top(stack) EXCEPT !.at = c]
        out == Pop(stack)
        own == f.kind \in {"obj", "arr"}
        c1 == skipWhitespace(d, c)
        key == parseString(d, c1)
        c2 == skipWhitespace(d, key.cur)
    IN  IF f.kind \in {"obj", "objcb"}
        THEN IF own /\ IsEOF(d, c1)
             THEN returned(c1, out, NilValue, ErrUnexpectedEOF, cb)
             ELSE IF key.err # NoError
             THEN returned(key.cur, out, NilValue, key.err, cb)
             ELSE IF own /\ IsEOF(d, c2)
             THEN returned(c2, out, NilValue, ErrUnexpectedEOF, cb)
             ELSE IF ~skipByte(d, c2, COLON).ok
             THEN returned(c2, out, NilValue, ErrUnexpectedToken, cb)
             ELSE calling(IF own THEN c2 + 1 ELSE skipWhitespace(d, c2 + 1),
                          SetTop(stack, [f EXCEPT !.key = key.val]), cb)
        ELSE IF f.kind = "arr"
        THEN IF IsEOF(d, c) THEN returned(c, out, NilValue, ErrUnexpectedEOF, cb)
             ELSE calling(c, SetTop(stack, f), cb)
        ELSE IF IsEOF(d, c1) THEN returned(c1, out, NilValue, ErrUnexpectedEOF, cb)
             ELSE calling(c1, SetTop(stack, f), cb)

\* The top frame's loop from the return of its ReadValue call to the end of
\* the iteration: the value stored or handed to the callback, the separator.
resume(d, c, stack, val, err, cb) ==
    LET f == Top(stack)
        out == Pop(stack)
        own == f.kind \in {"obj", "arr"}
        object == f.kind \in {"obj", "objcb"}
        called == IF own THEN [cb |-> cb, err |-> NoError]
                  ELSE invoke(cb, f.key, val, c)
        acc == IF ~own THEN f.acc
               ELSE IF object THEN mapAssign(f.acc, f.key, val)
               ELSE Append(f.acc, val)
        whole == IF ~own THEN NilValue
                 ELSE IF object THEN ObjValue(acc) ELSE ArrValue(acc)
        c1 == skipWhitespace(d, c)
        closer == IF object THEN RBRACE ELSE RBRACKET
    IN  IF err # NoError THEN returned(c, out, NilValue, err, cb)
        ELSE IF called.err # NoError
        THEN returned(c, out, NilValue, called.err, called.cb)
        ELSE IF IsEOF(d, c1)
        THEN returned(c1, out, NilValue, ErrUnexpectedEOF, called.cb)
        ELSE IF skipByte(d, c1, closer).ok
        THEN returned(c1 + 1, out, whole, NoError, called.cb)
        ELSE IF ~skipByte(d, c1, COMMA).ok
        THEN returned(c1, out, NilValue, ErrUnexpectedToken, called.cb)
        ELSE iterating(IF f.kind = "arr" THEN skipWhitespace(d, c1 + 1) ELSE c1 + 1,
                       SetTop(stack, [f EXCEPT !.acc = acc]), called.cb)

\* ReadObjectCallback and ReadArrayCallback up to their loops.
enterCallback(d, c, kind, cb) ==
    LET opener == IF kind = "objcb" THEN LBRACE ELSE LBRACKET
        closer == IF kind = "objcb" THEN RBRACE ELSE RBRACKET
        c1 == skipWhitespace(d, c + 1)
    IN  IF ~skipByte(d, c, opener).ok
        THEN returned(c, << >>, NilValue, ErrUnexpectedToken, cb)
        ELSE IF skipByte(d, c1, closer).ok
        THEN returned(c1 + 1, << >>, NilValue, NoError, cb)
        ELSE iterating(c1, <<newFrame(kind, c)>>, cb)

Openers == {LBRACKET, LBRACE}

StepTexts ==
    SeqsUpTo(Openers, MaxOpeners)
    \cup {o \o <<32>> : o \in SeqsUpTo(Openers, 2)}
    \cup {<<LBRACE, QUOTE, 97, QUOTE, COLON>> \o o : o \in SeqsUpTo(Openers, 2)}
    \cup {<<LBRACKET, 49, COMMA>> \o o : o \in SeqsUpTo(Openers, 2)}
    \cup {<<LBRACKET, LBRACKET, LBRACKET, 49, RBRACKET, RBRACKET, RBRACKET>>,
          <<LBRACKET, LBRACKET, RBRACKET, COMMA, LBRACE, RBRACE, COMMA, 49, RBRACKET>>,
          <<32, 49, 46>>, <<QUOTE, 97>>, <<LBRACKET, 49, 32, 50, RBRACKET>>,
          <<LBRACE, QUOTE, 97, QUOTE, COLON, 49, COMMA, QUOTE, 97, QUOTE, COLON, 50,
            RBRACE, 32>>}

StepInputs ==
    CutInputs
    \cup {[kind |-> "step", members |-> << >>, text |-> t, trail |-> << >>,
           lead |-> << >>] : t \in StepTexts}

StepResult(r, iters, calls, last) ==
    [val |-> r.val, err |-> r.err, fin |-> [e |-> "none"], cb |-> r.cb,
     stack |-> r.stack, st |-> r.st, iters |-> iters, calls |-> calls,
     last |-> last]

\* s := NewScanner(data)
NewScannerStep ==
    /\ op.name = "init"
    /\ \E input \in StepInputs :
          /\ data' = input.text
          /\ cur' = NewScanner(input.text, {})
          /\ op' = [name |-> "NewScanner", v |-> input, key |-> << >>, pre |-> res]
    /\ flags' = {}
    /\ mark' = 0
    /\ UNCHANGED <<dec, aw, ret, res>>

\* The reader is called: ReadValue, or a callback reader up to its loop.
StepBegin ==
    /\ op.name = "NewScanner"
    /\ \/ /\ op' = [op EXCEPT !.name = "ReadValue", !.pre = res]
          /\ res' = StepResult(calling(cur, << >>, NoCallback), 0, 0, -1)
          /\ cur' = cur
       \/ \E kind \in {"objcb", "arrcb"}, failAt \in 0..1 :
             LET r == enterCallback(data, cur, kind, newCallback("user", failAt))
             IN  /\ op' = [op EXCEPT
                             !.name = IF kind = "objcb" THEN "ReadObjectCallback"
                                      ELSE "ReadArrayCallback",
                             !.pre = res]
                 /\ res' = StepResult(r, 0, 0, -1)
                 /\ cur' = r.cur
    /\ mark' = cur
    /\ UNCHANGED <<dec, aw, ret, data, flags>>

Running == op.name \in Readers /\ "st" \in DOMAIN res

\* ReadValue is entered.
StepEnter ==
    /\ Running /\ res.st = "call"
    /\ LET r == enterValue(data, cur, res.stack, res.cb)
       IN  /\ cur' = r.cur
           /\ res' = StepResult(r, res.iters, res.calls + 1, cur)
    /\ UNCHANGED <<dec, aw, ret, data, flags, op, mark>>

\* The loop of the top frame begins an iteration.
StepIterate ==
    /\ Running /\ res.st = "iter"
    /\ LET r == iterate(data, cur, res.stack, res.cb)
       IN  /\ cur' = r.cur
           /\ res' = StepResult(r, res.iters + 1, res.calls, res.last)
    /\ UNCHANGED <<dec, aw, ret, data, flags, op, mark>>

\* The call of ReadValue returns to the loop that made it.
StepResume ==
    /\ Running /\ res.st = "ret" /\ res.stack # << >>
    /\ LET r == resume(data, cur, res.stack, res.val, res.err, res.cb)
       IN  /\ cur' = r.cur
           /\ res' = StepResult(r, res.iters, res.calls, res.last)
    /\ UNCHANGED <<dec, aw, ret, data, flags, op, mark>>

\* The reader has returned to its caller.
Returned == Running /\ res.st = "ret" /\ res.stack = << >>

\* err := s.Finalize()
StepFinalize ==
    /\ Returned
    /\ LET f == Finalize(data, cur)
       IN  /\ cur' = f.cur
           /\ res' = [res EXCEPT !.fin = f.err]
    /\ op' = [op EXCEPT !.name = "Finalize", !.pre = res]
    /\ mark' = cur
    /\ UNCHANGED <<dec, aw, ret, data, flags>>

RunStep == StepEnter \/ StepIterate \/ StepResume

NextStep ==
    \/ NewScannerStep
    \/ StepBegin
    \/ StepEnter
    \/ StepIterate
    \/ StepResume
    \/ StepFinalize

\* A call that has begun goes on: Go runs the reader to its return.
SpecStep == InitScan /\ [][NextStep]_vars /\ WF_vars(RunStep) /\ WF_vars(StepFinalize)

\* The steps arrive at what the reader returns as a whole.
StepsAgree ==
    Returned =>
        CASE op.name = "ReadValue" ->
                LET r == ReadValue(data, mark)
                IN  r.cur = cur /\ r.val = res.val /\ r.err = res.err
          [] op.name = "ReadObjectCallback" ->
                LET r == ReadObjectCallback(data, mark,
                                            newCallback("user", res.cb.failAt))
                IN  r.cur = cur /\ r.err = res.err /\ r.cb = res.cb
          [] op.name = "ReadArrayCallback" ->
                LET r == ReadArrayCallback(data, mark,
                                           newCallback("user", res.cb.failAt))
                IN  r.cur = cur /\ r.err = res.err /\ r.cb = res.cb

(***************************************************************************)
(* C28: every call of ReadValue, ReadObject, ReadArray, the callback       *)
(* readers (with a terminating callback) and Finalize on a finite buffer   *)
(* terminates with a value or an error: each loop iteration and each       *)
(* recursive ReadValue call consumes at least one byte before the next, so *)
(* the number of iterations is bounded by the input length and the         *)
(* recursion depth by the number of [ and { bytes consumed; an input of    *)
(* unclosed openers ends in an error, not in non-termination.              *)
(***************************************************************************)
\* The opening bytes among the bytes the call has consumed.
OpenersConsumed == Cardinality({i \in mark + 1..cur : data[i] \in Openers})

\* Each iteration begins behind the place the frame's previous one began at,
\* each ReadValue call behind the place of the previous call.
Progress ==
    /\ res.st = "iter" => cur > Top(res.stack).at
    /\ res.st = "call" => cur > res.last

Bounded ==
    /\ res.iters <= cur - mark /\ res.iters <= Len(data)
    /\ res.calls <= cur - mark + 1
    /\ Len(res.stack) <= OpenersConsumed
    /\ cur <= Len(data)

UnclosedOpeners ==
    /\ data # << >>
    /\ \A i \in 1..Len(data) : data[i] \in Openers \cup {32}

C28_ReadersTerminate ==
    /\ [](Running => (Progress /\ Bounded))
    /\ []((Returned /\ UnclosedOpeners) => res.err # NoError)
    /\ (Running ~> Returned)
    /\ (Returned ~> op.name = "Finalize")

\* ReadValue over four unclosed [ has returned unexpected end of input after
\* four calls, each of them inside the loop of the one before.
C28_Witness ==
    /\ op.name = "ReadValue" /\ Returned
    /\ data = <<LBRACKET, LBRACKET, LBRACKET, LBRACKET>>
    /\ res.calls = 4 /\ res.iters = 4
    /\ res.err = ErrUnexpectedEOF

(***************************************************************************)
(* C29: ReadObjectCallback and ReadArrayCallback invoke the callback       *)
(* exactly once per member or element, in input order, each duplicate key  *)
(* delivered separately, and each invocation happens before any byte       *)
(* behind that member's value is examined; hence when the call fails on a  *)
(* later grammar error, the callbacks for all members before the error     *)
(* have already run, and for an empty container the callback is never      *)
(* invoked.                                                                *)
(***************************************************************************)
\* The values of the elements the arrays are put together from.
ElemValue(text) ==
    CASE text = <<49>> -> NumValue(FALSE, 1, 0)
      [] text = <<QUOTE, 97, QUOTE>> -> StrValue(<<97>>)
      [] text = <<LBRACKET, RBRACKET>> -> ArrValue(<< >>)
      [] text = <<LBRACE, QUOTE, 97, QUOTE, COLON, 50, RBRACE>> ->
             ObjValue(KeyA :> NumValue(FALSE, 2, 0))

\* The reader called on a container of its kind that was put together from
\* members or elements.
ReadsItsKind ==
    \/ op.name = "ReadObjectCallback" /\ op.v.kind \in {"object", "objectComma"}
    \/ op.name = "ReadArrayCallback" /\ op.v.kind = "array"

\* The invocations the members or elements of the input call for, in input
\* order: key, value, and the offset right behind the value.
Deliveries(input) ==
    IF input.kind = "array"
    THEN [i \in 1..Len(input.elems) |->
             [key |-> << >>, v |-> ElemValue(input.elems[i]),
              cur |-> BehindValue(input, i)]]
    ELSE [i \in 1..Len(input.members) |->
             [key |-> input.members[i].key,
              v |-> NumValue(FALSE, input.members[i].n, 0),
              cur |-> BehindValue(input, i)]]

\* The invocations made until the callback fails, if it does.
UntilFailure(calls, failAt) ==
    IF failAt \in 1..Len(calls) THEN SubSeq(calls, 1, failAt) ELSE calls

\* The members of a container cut short that end within the cut.
WholeBefore(input) == {i \in 1..Len(input.ends) : input.ends[i] <= Len(input.text)}

C29_CallbackPerMember ==
    /\ ReadsItsKind =>
          /\ res.cb.calls = UntilFailure(Deliveries(op.v), res.cb.failAt)
          /\ (res.err # CallbackErr /\ op.v.kind # "object" /\ op.v.comma) =>
                res.err = ErrUnexpectedToken
    /\ (op.name \in CallbackReaders /\ op.v.kind = "cut"
        /\ peek(op.v.text, 0) =
              (IF op.name = "ReadObjectCallback" THEN LBRACE ELSE LBRACKET)) =>
          LET n == Cardinality(WholeBefore(op.v))
              made == IF res.cb.failAt \in 1..n THEN res.cb.failAt ELSE n
          IN  /\ Len(res.cb.calls) = made
              /\ \A i \in 1..made : res.cb.calls[i].cur = op.v.ends[i]
              /\ (res.cb.failAt \notin 1..n /\ Len(op.v.text) < Len(op.v.whole) - 1) =>
                    res.err \in {ErrUnexpectedEOF, ErrUnexpectedToken,
                                 ErrInvalidString}

\* ReadObjectCallback over {"a":1,"a":2,} has delivered a twice, 1 and then 2,
\* and failed at the closing brace behind the comma.
C29_Witness ==
    /\ op.name = "ReadObjectCallback"
    /\ data = <<LBRACE, QUOTE, 97, QUOTE, COLON, 49, COMMA, QUOTE, 97, QUOTE, COLON,
                50, COMMA, RBRACE>>
    /\ res.cb.failAt = 0
    /\ res.err = ErrUnexpectedToken
    /\ Len(res.cb.calls) = 2
    /\ res.cb.calls[1] = [key |-> KeyA, v |-> NumValue(FALSE, 1, 0), cur |-> 6]
    /\ res.cb.calls[2] = [key |-> KeyA, v |-> NumValue(FALSE, 2, 0), cur |-> 12]

\* ReadArrayCallback over [] and over [,]: no invocation.
C29_WitnessEmpty ==
    /\ op.name = "ReadArrayCallback"
    /\ data \in {<<LBRACKET, RBRACKET>>, <<LBRACKET, COMMA, RBRACKET>>}
    /\ res.cb.calls = << >>

(***************************************************************************)
(* C30: for any finite nesting of array- and object-producing procedures   *)
(* in which each procedure calls only the Builder it was handed and the    *)
(* leaf values are strings, integers or booleans, a Marshal that returns   *)
(* no error yields text in which every [ and { is closed by the matching ] *)
(* or } in stack order, commas occur only between siblings of the same     *)
(* container, and every object member has the form key : value.           *)
(***************************************************************************)
Procedures == {"func arr", "func obj", "func arr error", "func obj error"}

\* The nest is made of procedures around a string, an integer, a boolean or
\* a procedure that writes nothing.
ProceduresOnly(nest) ==
    /\ nest.leaf.kind = "clean"
    /\ \A i \in DOMAIN nest.wraps : nest.wraps[i].w \in Procedures

\* Outside strings, every closing byte of t from i on closes the container
\* opened last, and none is left open at the end; stack holds the opening
\* bytes of the containers open at i.
RECURSIVE Closes(_, _, _, _)
Closes(t, i, stack, inStr) ==
    IF i > Len(t) THEN stack = << >> /\ ~inStr
    ELSE IF inStr
    THEN IF t[i] = BACKSLASH THEN Closes(t, i + 2, stack, TRUE)
         ELSE Closes(t, i + 1, stack, t[i] # QUOTE)
    ELSE IF t[i] = QUOTE THEN Closes(t, i + 1, stack, TRUE)
    ELSE IF t[i] \in {LBRACKET, LBRACE} THEN Closes(t, i + 1, Append(stack, t[i]), FALSE)
    ELSE IF t[i] \in {RBRACKET, RBRACE}
    THEN /\ stack # << >>
         /\ stack[Len(stack)] = (IF t[i] = RBRACKET THEN LBRACKET ELSE LBRACE)
         /\ Closes(t, i + 1, SubSeq(stack, 1, Len(stack) - 1), FALSE)
    ELSE Closes(t, i + 1, stack, FALSE)

\* The text is one value of the grammar ReadValue accepts (commas between
\* elements or members only, each member a string, a colon and a value), with
\* nothing behind it.
OneValue(t) ==
    LET r == ReadValue(t, 0)
    IN  r.err = NoError /\ r.cur = Len(t)

C30_NestedProceduresWellFormed ==
    (op.name = "MarshalNest" /\ ProceduresOnly(op.nest) /\ ret.err = NoError) =>
        /\ ret.s # << >>
        /\ Closes(ret.s, 1, << >>, FALSE)
        /\ OneValue(ret.s)

\* An array procedure around an object procedure around a string of
\* structural bytes: [{"a":1,"b":"]},\":{"},true]
C30_Witness ==
    /\ op.name = "MarshalNest"
    /\ ProceduresOnly(op.nest)
    /\ ret.err = NoError
    /\ ret.s = <<LBRACKET, LBRACE, QUOTE, 97, QUOTE, COLON, 49, COMMA, QUOTE, 98,
                 QUOTE, COLON, QUOTE, RBRACKET, RBRACE, COMMA, BACKSLASH, QUOTE,
                 COLON, LBRACE, QUOTE, RBRACE, COMMA>> \o Str_true \o <<RBRACKET>>

====
